---- MODULE Spec2Model ----
(***************************************************************************)
(* Bisecting_Log: the embedding cache (app/core/embeddings.py), the        *)
(* progress tracker (app/core/progress.py) and the verbose bisecting       *)
(* k-means fit (app/core/custom_bkm.py, app/core/cluster.py).              *)
(*                                                                         *)
(* Fourteen specifications share the module:                               *)
(*   SpecCache  generate_url_bert called again and again on one store path *)
(*   SpecCapped the same under one max_cache_rows for the store's life     *)
(*   SpecGrow   generate_url_bert fed ever-larger novel key sets           *)
(*   SpecLimits the same store under a max_cache_rows of each call's own   *)
(*   SpecForce  calls with and without force_embed                         *)
(*   SpecDim    calls with encoders of different hidden_size               *)
(*   SpecPM     one ProgressManager driven by arbitrary calls              *)
(*   SpecFit    bkm_fit / fit_verbose, one fit from start to return        *)
(*   SpecFitAny the same with any n_clusters, below 1 and above N too      *)
(*   SpecTwice  two fits of one input with one random_state                *)
(*   SpecSteps  generate_url_bert step by step, with failures of the disk, *)
(*              of the encoder and of the process between the steps        *)
(*   SpecRaise  the same steps under a max_cache_rows of each call's own   *)
(*   SpecRun    run_clustering, run after run on one cache directory       *)
(*   SpecBot    is_valid_bot with its two address caches, process after    *)
(*              process                                                    *)
(***************************************************************************)
EXTENDS Integers, Sequences, FiniteSets, TLC

(***************************************************************************)
(* Bounds of the model.                                                    *)
(***************************************************************************)
\* keys are the naturals 1..NKeys (np.unique sorts them as it sorts strings)
NKeys == 2
\* longest url_list of SpecCache
MaxLen == 3
\* batch_size is drawn from 1..MaxBatch (32 in run_clustering)
MaxBatch == 2
\* max_cache_rows is None or drawn from 1..MaxCap
MaxCap == 2
\* capacity of the first growth: 1024 in the source (embeddings.py:123),
\* scaled down so that repeated growth happens with a handful of keys
FirstCapacity == 1
\* keys of SpecGrow, 1..GrowKeys, and the largest novel set of one call
GrowKeys == 9
MaxNovel == 3

\* SpecSteps: at most MaxFaults faults in one behaviour
MaxFaults == 1
\* SpecLimits: keys are 1..LimitKeys
LimitKeys == 3
MaxDim == 2
\* IP addresses are the naturals 1..NIps
NIps == 2
\* SpecTwice: at most TwiceN rows with values from 0..TwiceVal
TwiceN == 3
TwiceVal == 1
\* SpecRun: the feature values of a run are drawn from 0..RunVal
RunVal == 1
\* SpecRun: a log of more than SampleOver rows is sampled (200000 in the
\* source, cluster.py:316)
SampleOver == 1
\* SpecPM: total_units is drawn from -1..MaxTotal, units from -1..MaxUnits,
\* and a tracker is followed for MaxLines protocol lines
MaxTotal == 4
MaxUnits == 2
MaxLines == 5
\* SpecFit: N in 1..MaxN samples of one feature with values in 0..MaxVal
MaxN == 4
MaxVal == 2

Keys == 1..NKeys

Min(a, b) == IF a < b THEN a ELSE b
Max(a, b) == IF a > b THEN a ELSE b

(***************************************************************************)
(* The encoder and the half-precision cast.  MODEL(...).mean(dim=1) is a   *)
(* pure function of the key; astype(np.float16) drops the low bits.  No    *)
(* key encodes to the zero row.                                            *)
(***************************************************************************)
Raw(k) == 4 * k + 1
ToF16(v) == (v \div 4) * 4
Enc16(k) == ToF16(Raw(k))
ZeroRow == 0

(***************************************************************************)
(* State of the embedding cache.                                           *)
(***************************************************************************)
VARIABLES
    diskIndex,   \* url_index.pkl: [exists, map: key -> row offset]
    diskMeta,    \* global_meta.pkl: [exists, capacity, n_stored]
    diskFile,    \* global_url_embeddings.memmap: [exists, rows]
    submitted,   \* keys submitted by the calls so far
    fixedCap,    \* SpecCapped: the max_cache_rows every call is made with
    growths,     \* SpecGrow: growth cycles so far
    cpc,         \* "idle" | "returned"
    call         \* the call that has just returned: its input and results

cvars == <<diskIndex, diskMeta, diskFile, submitted, fixedCap, growths, cpc, call>>

(***************************************************************************)
(* State of the progress tracker and of stdout.                            *)
(***************************************************************************)
VARIABLES
    pm,      \* the tracker: [total_units, current, status]
    out,     \* the lines written to stdout, oldest first
    pmArg,   \* SpecPM: the total_units the constructor was given
    pmLast   \* SpecPM: the last method called and its argument

pmvars == <<pm, out, pmArg, pmLast>>

(***************************************************************************)
(* State of one fit.                                                       *)
(***************************************************************************)
VARIABLES
    fitMode,           \* "own": bkm_fit makes the tracker; "shared": the
                       \* pipeline passes its tracker; "direct": fit_verbose
                       \* is called with progress_manager=None
    fitX,              \* the samples, 1..N -> value
    fitK,              \* n_clusters
    fpc,               \* where the fit is
    step,              \* bisections done
    leaves,            \* the leaves: [indices, score, label]
    labels_,           \* labels_ (<<>> before it is allocated)
    cluster_centers_,  \* cluster_centers_ (<<>> before it is allocated)
    local_current      \* fit_verbose's own unit counter

fvars == <<fitMode, fitX, fitK, fpc, step, leaves, labels_, cluster_centers_,
           local_current>>

(***************************************************************************)
(* State of a call followed step by step, with the faults of its           *)
(* environment.                                                            *)
(***************************************************************************)
VARIABLES
    diskTmp,     \* global_url_embeddings.memmap.tmp: [exists, rows]
    unreadable,  \* which of "index", "meta" joblib.load cannot read
    faults       \* faults injected so far

svars == <<diskTmp, unreadable, faults>>

(***************************************************************************)
(* State of run_clustering.                                                *)
(***************************************************************************)
VARIABLES
    rpc,         \* where the run is
    diskF32,     \* url_embeddings_f32.memmap: [exists, rows]
    diskNorm,    \* url_embeddings_f32_norm.memmap: [exists, rows]
    handed,      \* the url matrix handed to combine_features
    features     \* the matrices combined, fitted on and predicted on

rvars == <<rpc, diskF32, diskNorm, handed, features>>

VARIABLES
    rng,         \* the numbers a generator seeded with 42 yields, <<>>: any
    rngPos,      \* how many numbers the fit's generator has yielded
    firstFit     \* labels and centers of an earlier fit on the same input

dvars == <<rng, rngPos, firstFit>>

VARIABLES
    diskDim      \* meta["dim"]: the row width of the call that last saved
                 \* the store

wvars == <<diskDim>>

VARIABLES
    bpc,               \* "off": no process; "up": bot.py is imported
    verified_bot_ips,  \* the module's set of verified addresses
    spoofed_bot_ips,   \* the module's set of spoofed addresses
    diskVerified,      \* verified_bots.pkl
    diskSpoofed,       \* spoofed_bots.pkl
    botCall            \* the last call of is_valid_bot and what it did

bvars == <<bpc, verified_bot_ips, spoofed_bot_ips, diskVerified, diskSpoofed,
           botCall>>

vars == <<cvars, pmvars, fvars, svars, rvars, dvars, wvars, bvars>>

\* max_cache_rows: {} is None, {m} is the cap m
CapSet == {{}} \cup {{m} : m \in 1..MaxCap}
CapOf(cap) == CHOOSE m \in cap : TRUE

EmptyIndex == [k \in {} |-> 0]
NoCall == [urls |-> <<>>, encoded |-> <<>>, overflow |-> {}, out |-> <<>>,
           grew |-> FALSE, force_embed |-> FALSE, dim |-> 1, cap |-> {}]

RECURSIVE SetToSortedSeq(_)
SetToSortedSeq(S) ==
    IF S = {} THEN <<>>
    ELSE LET m == CHOOSE x \in S : \A y \in S : x <= y
         IN  <<m>> \o SetToSortedSeq(S \ {m})

Range(s) == {s[i] : i \in 1..Len(s)}

\* faulty variant: no deduplication, every position is a slot of its own
UniqueUrlsNoDedup(urls) == urls

\* np.unique(arr_urls, return_inverse=True): the sorted distinct keys
UniqueUrls(urls) == SetToSortedSeq(Range(urls))
\* inv: for every position, the slot of its key in unique_urls (0-based)
OrigToUnique(urls) ==
    LET u == UniqueUrls(urls)
    IN  [i \in 1..Len(urls) |-> (CHOOSE j \in 1..Len(u) : u[j] = urls[i]) - 1]

\* faulty variant: the index file is not read back
LoadIndexFresh(d) == EmptyIndex

\* index = joblib.load(index_path) when the file exists, {} otherwise
LoadIndex(d) == IF d.exists THEN d.map ELSE EmptyIndex

\* meta = joblib.load(meta_path) when the file exists, zeros otherwise
LoadMeta(d) ==
    IF d.exists THEN [capacity |-> d.capacity, n_stored |-> d.n_stored]
    ELSE [capacity |-> 0, n_stored |-> 0]

\* faulty variant: the index is not consulted, every unique key is computed
UrlsToComputeAll(unique, index) == unique

\* unique keys that are not in the index, in unique order
UrlsToCompute(unique, index) ==
    SelectSeq(unique, LAMBDA u : u \notin DOMAIN index)

\* faulty variant: growth, batch loop and save run on every call
HasWorkAlways(todo) == TRUE

\* if urls_to_compute:
HasWork(todo) == todo # <<>>

\* faulty variant: max_cache_rows is ignored
NewCapacityNoCap(capacity, need, cap) ==
    Max(IF capacity > 0 THEN capacity * 2 ELSE FirstCapacity, capacity + need)

\* faulty variant: a store above max_cache_rows is cut down to it
NewCapacityShrink(capacity, need, cap) ==
    LET grown == Max(IF capacity > 0 THEN capacity * 2 ELSE FirstCapacity,
                     capacity + need)
    IN  IF cap # {} /\ grown > CapOf(cap) THEN CapOf(cap) ELSE grown

\* capacity of the new region
NewCapacity(capacity, need, cap) ==
    LET grown == Max(IF capacity > 0 THEN capacity * 2 ELSE FirstCapacity,
                     capacity + need)
    IN  IF cap # {} /\ grown > CapOf(cap)
        THEN IF capacity >= CapOf(cap) THEN capacity ELSE CapOf(cap)
        ELSE grown

\* faulty variant: the new region is left zero-filled, the stored rows are not copied
GrownRowsNoCopy(rows, hasOld, n_stored, new_capacity) ==
    [o \in 1..new_capacity |-> ZeroRow]

\* faulty variant: the stored rows are copied one offset too far
GrownRowsShifted(rows, hasOld, n_stored, new_capacity) ==
    [o \in 1..new_capacity |->
        IF hasOld /\ 1 < o /\ o <= n_stored + 1 THEN rows[o - 1] ELSE ZeroRow]

\* the rows of the new region: the stored rows at their offsets, zeros after
GrownRows(rows, hasOld, n_stored, new_capacity) ==
    [o \in 1..new_capacity |->
        IF hasOld /\ o <= n_stored THEN rows[o] ELSE ZeroRow]

\* the memory map after the growth step; [open |-> FALSE] is global_mm = None
LoadMap(meta, file) ==
    IF meta.capacity > 0 /\ file.exists
    THEN [open |-> TRUE, rows |-> file.rows]
    ELSE [open |-> FALSE, rows |-> <<>>]

\* faulty variant: the region is re-made on every call that has keys to compute
GrowStepAlways(mm, capacity, n_stored, need, cap) ==
    LET nc == NewCapacity(capacity, need, cap)
    IN  [mm |-> [open |-> TRUE,
                 rows |-> GrownRows(mm.rows, mm.open, n_stored, nc)],
         capacity |-> nc, grew |-> TRUE]

\* the growth step (embeddings.py:120-146)
GrowStep(mm, capacity, n_stored, need, cap) ==
    IF capacity - n_stored < need
    THEN LET nc == NewCapacity(capacity, need, cap)
         IN  [mm |-> [open |-> TRUE,
                      rows |-> GrownRows(mm.rows, mm.open, n_stored, nc)],
              capacity |-> nc, grew |-> TRUE]
    ELSE [mm |-> mm, capacity |-> capacity, grew |-> FALSE]

\* faulty variant: every key of a batch gets the batch's first offset
BatchStepSameOffset(st, batch, mmOpen, capacity) ==
    LET n == Len(batch)
    IN  IF mmOpen /\ st.n_stored + n <= capacity
        THEN [st EXCEPT
                !.rows = [o \in 1..Len(st.rows) |->
                            IF o > st.n_stored /\ o <= st.n_stored + n
                            THEN Enc16(batch[o - st.n_stored])
                            ELSE st.rows[o]],
                !.index = [k \in DOMAIN st.index \cup Range(batch) |->
                            IF k \in Range(batch) THEN st.n_stored
                            ELSE st.index[k]],
                !.n_stored = st.n_stored + n,
                !.encoded = st.encoded \o batch]
        ELSE [st EXCEPT
                !.temp = [k \in DOMAIN st.temp \cup Range(batch) |->
                            IF k \in Range(batch)
                            THEN Enc16(k) ELSE st.temp[k]],
                !.encoded = st.encoded \o batch]

\* one batch of the encoding loop, on the loop state
\* st = [rows, index, n_stored, temp, encoded]
\* faulty variant: a batch that does not fit is written over the last row
BatchStepWriteOverflow(st, batch, mmOpen, capacity) ==
    LET n == Len(batch)
        can_store_globally == mmOpen /\ st.n_stored + n <= capacity
    IN  IF can_store_globally
        THEN [st EXCEPT
                !.rows = [o \in 1..Len(st.rows) |->
                            IF o > st.n_stored /\ o <= st.n_stored + n
                            THEN Enc16(batch[o - st.n_stored])
                            ELSE st.rows[o]],
                !.index = [k \in DOMAIN st.index \cup Range(batch) |->
                            IF k \in Range(batch)
                            THEN st.n_stored
                                 + (CHOOSE j \in 1..n : batch[j] = k) - 1
                            ELSE st.index[k]],
                !.n_stored = st.n_stored + n,
                !.encoded = st.encoded \o batch]
        ELSE [st EXCEPT
                !.rows = [o \in 1..Len(st.rows) |->
                            IF o = Len(st.rows) THEN Enc16(batch[1])
                            ELSE st.rows[o]],
                !.temp = [k \in DOMAIN st.temp \cup Range(batch) |->
                            IF k \in Range(batch)
                            THEN Enc16(k) ELSE st.temp[k]],
                !.encoded = st.encoded \o batch]

BatchStep(st, batch, mmOpen, capacity) ==
    LET n == Len(batch)
        can_store_globally == mmOpen /\ st.n_stored + n <= capacity
    IN  IF can_store_globally
        THEN [st EXCEPT
                !.rows = [o \in 1..Len(st.rows) |->
                            IF o > st.n_stored /\ o <= st.n_stored + n
                            THEN Enc16(batch[o - st.n_stored])
                            ELSE st.rows[o]],
                !.index = [k \in DOMAIN st.index \cup Range(batch) |->
                            IF k \in Range(batch)
                            THEN st.n_stored
                                 + (CHOOSE j \in 1..n : batch[j] = k) - 1
                            ELSE st.index[k]],
                !.n_stored = st.n_stored + n,
                !.encoded = st.encoded \o batch]
        ELSE [st EXCEPT
                !.temp = [k \in DOMAIN st.temp \cup Range(batch) |->
                            IF k \in Range(batch)
                            THEN Enc16(k) ELSE st.temp[k]],
                !.encoded = st.encoded \o batch]

\* for i in range(0, len(urls_to_compute), batch_size)
RECURSIVE BatchLoop(_, _, _, _, _, _)
BatchLoop(st, todo, i, batch_size, mmOpen, capacity) ==
    IF i >= Len(todo) THEN st
    ELSE BatchLoop(
            BatchStep(st, SubSeq(todo, i + 1, Min(i + batch_size, Len(todo))),
                      mmOpen, capacity),
            todo, i + batch_size, batch_size, mmOpen, capacity)

\* faulty variant: the transient overflow is not looked up
BuildOutputNoTemp(n, unique, inv, index, temp, rows) ==
    [orig_idx \in 1..n |->
        LET urlstr == unique[inv[orig_idx] + 1]
        IN  IF urlstr \notin DOMAIN index THEN ZeroRow
            ELSE rows[index[urlstr] + 1]]

\* the per-run matrix: one row per original position
BuildOutput(n, unique, inv, index, temp, rows) ==
    [orig_idx \in 1..n |->
        LET urlstr == unique[inv[orig_idx] + 1]
        IN  IF urlstr \notin DOMAIN index
            THEN IF urlstr \in DOMAIN temp THEN temp[urlstr] ELSE ZeroRow
            ELSE rows[index[urlstr] + 1]]

\* the store a call finds on disk
Store == [index |-> diskIndex, meta |-> diskMeta, file |-> diskFile,
          dim |-> diskDim]

\* faulty variant: force_embed removes nothing
RemovedNothing(d) == d

\* force_embed: the index, the metadata and the data region are removed
Removed(d) ==
    [index |-> [exists |-> FALSE, map |-> EmptyIndex],
     meta |-> [exists |-> FALSE, capacity |-> 0, n_stored |-> 0],
     file |-> [exists |-> FALSE, rows |-> <<>>],
     dim |-> d.dim]

\* the rows np.memmap(global_path, shape=(capacity, dim)) shows of a region
\* written with rows of width fileDim: with another width a row that was
\* written is read as something else (a negative number, no vector of the
\* encoder), a row of zeros stays zeros
View(rows, fileDim, dim) ==
    IF fileDim = dim THEN rows
    ELSE [o \in 1..Len(rows) |-> IF rows[o] = ZeroRow THEN ZeroRow ELSE 0 - o]

\* generate_url_bert as a whole, on the store d, with force_embed = force
\* and an encoder of hidden_size = dim
CallOn(d, force, dim, urls, batch_size, cap) ==
    /\ cpc = "idle"
    /\ \E index \in {LoadIndex(d.index)}, meta \in {LoadMeta(d.meta)} :
       \E mm0 \in {LoadMap(meta, d.file)} :
       \E mm \in {[open |-> mm0.open, rows |-> View(mm0.rows, d.dim, dim)]} :
       \E unique \in {UniqueUrls(urls)} :
       \E inv \in {OrigToUnique(urls)} :
       \E todo \in {UrlsToCompute(unique, index)} :
       \E g \in {IF HasWork(todo)
                 THEN GrowStep(mm, meta.capacity, meta.n_stored, Len(todo), cap)
                 ELSE [mm |-> mm, capacity |-> meta.capacity, grew |-> FALSE]} :
       \E st \in {BatchLoop([rows |-> g.mm.rows, index |-> index,
                              n_stored |-> meta.n_stored,
                              temp |-> EmptyIndex, encoded |-> <<>>],
                             todo, 0, batch_size, g.mm.open, g.capacity)} :
          /\ diskIndex' = IF HasWork(todo)
                          THEN [exists |-> TRUE, map |-> st.index]
                          ELSE d.index
          /\ diskMeta' = IF HasWork(todo)
                         THEN [exists |-> TRUE, capacity |-> g.capacity,
                               n_stored |-> st.n_stored]
                         ELSE d.meta
          /\ diskFile' = IF g.mm.open
                         THEN [exists |-> TRUE, rows |-> st.rows]
                         ELSE d.file
          /\ submitted' = submitted \cup Range(urls)
          /\ cpc' = "returned"
          /\ call' = [urls |-> urls, encoded |-> st.encoded,
                      overflow |-> DOMAIN st.temp,
                      out |-> BuildOutput(Len(urls), unique, inv,
                                          st.index, st.temp, st.rows),
                      grew |-> g.grew /\ g.capacity > meta.capacity,
                      force_embed |-> force, dim |-> dim, cap |-> cap]

\* generate_url_bert(url_list, ..., batch_size, out_path="embeddings",
\*                   force_embed=False, max_cache_rows=cap), as a whole,
\* with the encoder the store was written with
GenerateUrlBert(urls, batch_size, cap) ==
    CallOn(Store, FALSE, diskDim, urls, batch_size, cap)

\* the process that made the call ends: its locals (url_list, the overflow,
\* the per-run matrix handle) are gone, the store stays
ProcessExit ==
    /\ cpc = "returned"
    /\ cpc' = "idle"
    /\ call' = NoCall
    /\ UNCHANGED <<diskIndex, diskMeta, diskFile, submitted, fixedCap, growths>>
    /\ UNCHANGED <<pmvars, fvars, svars, rvars, dvars, wvars, bvars>>

\* no tracker call and no fit is under way
NoTracker ==
    /\ pm = [total_units |-> 1, current |-> 0, status |-> ""]
    /\ out = <<>>
    /\ pmArg = 1
    /\ pmLast = [op |-> "init", units |-> 0]

NoFit ==
    /\ fitMode = "off"
    /\ fitX = <<>>
    /\ fitK = 0
    /\ fpc = "off"
    /\ step = 0
    /\ leaves = <<>>
    /\ labels_ = <<>>
    /\ cluster_centers_ = <<>>
    /\ local_current = 0

NoFaults ==
    /\ diskTmp = [exists |-> FALSE, rows |-> <<>>]
    /\ unreadable = {}
    /\ faults = 0

\* a feature matrix: kind is "ndarray", "sparse" or, for the pair that
\* combine_features can return, "tuple" (rows: the dense first matrix,
\* rest: the sparse second); rows holds one sequence of columns per row
NoArray == [kind |-> "none", rows |-> <<>>, rest |-> <<>>]

\* final_features, features_sample with the rows of df it holds, what
\* bkm_fit and predict_labels use, and the rows of df that the matrix and
\* the labels handed to evaluate_and_save_metrics stand for
NoFeatures ==
    [final |-> NoArray, sample |-> NoArray, sampleIdx |-> <<>>,
     fit |-> NoArray, predict |-> NoArray,
     evalFeat |-> <<>>, evalLab |-> <<>>]

NoSeed ==
    /\ rng = <<>>
    /\ rngPos = 0
    /\ firstFit = <<>>

NoBotCall == [ip |-> 0, ua |-> {}, result |-> "none", lookups |-> 0]

NoPickle == [exists |-> FALSE, ips |-> {}]

NoBot ==
    /\ bpc = "off"
    /\ verified_bot_ips = {}
    /\ spoofed_bot_ips = {}
    /\ diskVerified = NoPickle
    /\ diskSpoofed = NoPickle
    /\ botCall = NoBotCall

NoRun ==
    /\ rpc = "off"
    /\ diskF32 = [exists |-> FALSE, rows |-> <<>>]
    /\ diskNorm = [exists |-> FALSE, rows |-> <<>>]
    /\ handed = <<>>
    /\ features = NoFeatures

StoreInit ==
    /\ diskDim = 1
    /\ diskIndex = [exists |-> FALSE, map |-> EmptyIndex]
    /\ diskMeta = [exists |-> FALSE, capacity |-> 0, n_stored |-> 0]
    /\ diskFile = [exists |-> FALSE, rows |-> <<>>]
    /\ submitted = {}
    /\ growths = 0
    /\ cpc = "idle"
    /\ call = NoCall

(***************************************************************************)
(* SpecCache: any url_list, batch_size and max_cache_rows in every call.   *)
(***************************************************************************)
UrlLists == UNION {[1..n -> Keys] : n \in 1..MaxLen}

CacheCall ==
    /\ \E urls \in UrlLists, batch_size \in 1..MaxBatch, cap \in CapSet :
          GenerateUrlBert(urls, batch_size, cap)
    /\ UNCHANGED <<fixedCap, growths, pmvars, fvars, svars, rvars, dvars, wvars, bvars>>

CacheInit ==
    StoreInit /\ fixedCap = {} /\ NoTracker /\ NoFit /\ NoFaults /\ NoRun /\ NoSeed /\ NoBot

CacheNext == CacheCall \/ ProcessExit

SpecCache == CacheInit /\ [][CacheNext]_vars

(***************************************************************************)
(* SpecCapped: the store lives under one max_cache_rows = M, the way a     *)
(* deployment passes the same --max-cache-rows to every run.               *)
(***************************************************************************)
CappedCall ==
    /\ \E urls \in UrlLists, batch_size \in 1..MaxBatch :
          GenerateUrlBert(urls, batch_size, fixedCap)
    /\ UNCHANGED <<fixedCap, growths, pmvars, fvars, svars, rvars, dvars, wvars, bvars>>

CappedInit ==
    /\ StoreInit /\ fixedCap \in CapSet \ {{}}
    /\ NoTracker /\ NoFit /\ NoFaults /\ NoRun /\ NoSeed /\ NoBot

CappedNext == CappedCall \/ ProcessExit

SpecCapped == CappedInit /\ [][CappedNext]_vars

(***************************************************************************)
(* SpecGrow: every call brings the next novel keys (1..GrowKeys, in order) *)
(* and may ask again for one key submitted before; no cap.                 *)
(***************************************************************************)
NovelKeys(j) ==
    LET first == Cardinality(submitted) + 1
    IN  [i \in 1..Min(j, GrowKeys - Cardinality(submitted)) |-> first + i - 1]

GrowCall ==
    /\ \E probe \in {<<>>} \cup {<<k>> : k \in submitted},
          j \in 0..MaxNovel, batch_size \in 1..MaxBatch :
          /\ probe \o NovelKeys(j) # <<>>
          /\ GenerateUrlBert(probe \o NovelKeys(j), batch_size, {})
    /\ growths' = IF call'.grew THEN growths + 1 ELSE growths
    /\ UNCHANGED <<fixedCap, pmvars, fvars, svars, rvars, dvars, wvars, bvars>>

GrowInit ==
    StoreInit /\ fixedCap = {} /\ NoTracker /\ NoFit /\ NoFaults /\ NoRun /\ NoSeed /\ NoBot

GrowNext == GrowCall \/ ProcessExit

SpecGrow == GrowInit /\ [][GrowNext]_vars

\* a process calls generate_url_bert with or without force_embed; with it the
\* per-run file and the float32 copies are removed as well
ForceCall ==
    /\ \E force \in BOOLEAN, urls \in UrlLists, batch_size \in 1..MaxBatch,
          cap \in CapSet :
          /\ CallOn(IF force THEN Removed(Store) ELSE Store, force, diskDim,
                    urls, batch_size, cap)
          /\ diskF32' = IF force THEN [exists |-> FALSE, rows |-> <<>>]
                        ELSE diskF32
          /\ diskNorm' = IF force THEN [exists |-> FALSE, rows |-> <<>>]
                         ELSE diskNorm
    /\ UNCHANGED <<fixedCap, growths, rpc, handed, features>>
    /\ UNCHANGED <<pmvars, fvars, svars, dvars, wvars, bvars>>

ForceNext == ForceCall \/ ProcessExit

SpecForce == CacheInit /\ [][ForceNext]_vars

\* a process calls generate_url_bert with an encoder of hidden_size dim; the
\* metadata saved after encoding carries that dim (meta["dim"] = dim)
DimCall ==
    /\ \E dim \in 1..MaxDim, urls \in UrlLists, batch_size \in 1..MaxBatch :
          /\ CallOn(Store, FALSE, dim, urls, batch_size, fixedCap)
          /\ diskDim' = IF call'.encoded # <<>> THEN dim ELSE diskDim
    /\ UNCHANGED <<fixedCap, growths, pmvars, fvars, svars, rvars, dvars>>
    /\ UNCHANGED bvars

DimNext == DimCall \/ ProcessExit

SpecDim == CacheInit /\ [][DimNext]_vars

(***************************************************************************)
(* SpecLimits: calls on the keys 1..LimitKeys, every call with a           *)
(* max_cache_rows of its own, None or any of 1..MaxCap, so that a call     *)
(* that needs room can meet a store whose capacity is above its            *)
(* max_cache_rows.                                                         *)
(***************************************************************************)
LimitLists == {SetToSortedSeq(S) : S \in (SUBSET (1..LimitKeys)) \ {{}}}

LimitsCall ==
    /\ \E urls \in LimitLists, batch_size \in 1..MaxBatch, cap \in CapSet :
          GenerateUrlBert(urls, batch_size, cap)
    /\ growths' = IF call'.grew THEN growths + 1 ELSE growths
    /\ UNCHANGED <<fixedCap, pmvars, fvars, svars, rvars, dvars, wvars, bvars>>

LimitsNext == LimitsCall \/ ProcessExit

SpecLimits == GrowInit /\ [][LimitsNext]_vars

(***************************************************************************)
(* SpecSteps: generate_url_bert followed statement by statement, every     *)
(* call with the store's max_cache_rows.  The environment may make the     *)
(* encoder raise, fail a write, kill the process at any point of a call    *)
(* and leave the index or the metadata file unreadable.  Writes through    *)
(* the memory map land in the file at once.                                *)
(***************************************************************************)
NoFile == [exists |-> FALSE, rows |-> <<>>]

\* joblib.load of a file that cannot be read raises and the default stays
ReadIndex(d, bad) == IF "index" \in bad THEN EmptyIndex ELSE LoadIndex(d)
ReadMeta(d, bad) ==
    IF "meta" \in bad THEN [capacity |-> 0, n_stored |-> 0] ELSE LoadMeta(d)

StepFrame == UNCHANGED <<fixedCap, growths, pmvars, fvars, rvars, dvars, wvars, bvars>>

\* lines 68-118: index, metadata and map are loaded, the keys deduplicated
\* and the missing ones listed
StepLoad(urls, batch_size, cap) ==
    /\ cpc = "idle"
    /\ \E index \in {ReadIndex(diskIndex, unreadable)},
          meta \in {ReadMeta(diskMeta, unreadable)} :
       \E unique \in {UniqueUrls(urls)} :
       \E todo \in {UrlsToCompute(unique, index)} :
       \E canOpen \in {meta.capacity <= Len(diskFile.rows)} :
          /\ call' = [urls |-> urls, batch_size |-> batch_size, cap |-> cap,
                      unique |-> unique, inv |-> OrigToUnique(urls),
                      todo |-> todo, index |-> index,
                      capacity |-> meta.capacity, n_stored |-> meta.n_stored,
                      mmOpen |-> meta.capacity > 0 /\ diskFile.exists,
                      temp |-> EmptyIndex, i |-> 0, encoded |-> <<>>,
                      overflow |-> {}, out |-> <<>>, grew |-> FALSE,
                      failure |-> IF meta.capacity > 0 /\ diskFile.exists
                                     /\ ~canOpen
                                  THEN "open" ELSE "none",
                      saved |-> {},
                      loaded |-> [index |-> index, capacity |-> meta.capacity,
                                  n_stored |-> meta.n_stored,
                                  recovered |-> unreadable]]
          /\ cpc' = IF call'.failure = "open" THEN "raised"
                    ELSE IF ~HasWork(todo) THEN "output"
                    ELSE IF meta.capacity - meta.n_stored < Len(todo)
                    THEN "grow" ELSE "batches"
    /\ UNCHANGED <<diskIndex, diskMeta, diskFile, submitted, svars>>
    /\ StepFrame

\* the url lists of SpecSteps: the keys of a non-empty set, each once
StepLists == {SetToSortedSeq(S) : S \in (SUBSET Keys) \ {{}}}

StepCall ==
    \E urls \in StepLists, batch_size \in 1..MaxBatch :
       StepLoad(urls, batch_size, fixedCap)

\* lines 123-133: the new region is made under the .tmp name and the
\* stored rows are copied into it
StepAlloc ==
    /\ cpc = "grow"
    /\ \E nc \in {NewCapacity(call.capacity, Len(call.todo), call.cap)} :
          /\ diskTmp' = [exists |-> TRUE,
                         rows |-> GrownRows(diskFile.rows, call.mmOpen,
                                            call.n_stored, nc)]
          /\ call' = [call EXCEPT !.grew = nc > call.capacity,
                                  !.capacity = nc]
    /\ cpc' = "copied"
    /\ UNCHANGED <<diskIndex, diskMeta, diskFile, submitted, unreadable, faults>>
    /\ StepFrame

\* making or filling the new region fails: the exception leaves the call
AllocFails ==
    /\ cpc = "grow"
    /\ faults < MaxFaults
    /\ faults' = faults + 1
    /\ diskTmp' \in {diskTmp, [exists |-> TRUE, rows |-> <<>>]}
    /\ call' = [call EXCEPT !.failure = "alloc"]
    /\ cpc' = "raised"
    /\ UNCHANGED <<diskIndex, diskMeta, diskFile, submitted, unreadable>>
    /\ StepFrame

\* lines 134-142: the old map is dropped and the old file removed
StepRemove ==
    /\ cpc = "copied"
    /\ diskFile' = NoFile
    /\ cpc' = "removed"
    /\ UNCHANGED <<diskIndex, diskMeta, submitted, call, svars>>
    /\ StepFrame

\* lines 143-146: the new region takes the store's name and is mapped
StepMove ==
    /\ cpc = "removed"
    /\ diskFile' = diskTmp
    /\ diskTmp' = NoFile
    /\ call' = [call EXCEPT !.mmOpen = TRUE]
    /\ cpc' = "batches"
    /\ UNCHANGED <<diskIndex, diskMeta, submitted, unreadable, faults>>
    /\ StepFrame

\* shutil.move fails: the exception leaves the call
MoveFails ==
    /\ cpc = "removed"
    /\ faults < MaxFaults
    /\ faults' = faults + 1
    /\ call' = [call EXCEPT !.failure = "move"]
    /\ cpc' = "raised"
    /\ UNCHANGED <<diskIndex, diskMeta, diskFile, submitted, diskTmp, unreadable>>
    /\ StepFrame

\* the batch the loop is at
BatchAt(c) ==
    SubSeq(c.todo, c.i + 1, Min(c.i + c.batch_size, Len(c.todo)))

\* lines 149-177: one batch is encoded and stored or kept in the overflow
StepBatch ==
    /\ cpc = "batches"
    /\ call.i < Len(call.todo)
    /\ \E st \in {BatchStep([rows |-> diskFile.rows, index |-> call.index,
                              n_stored |-> call.n_stored, temp |-> call.temp,
                              encoded |-> call.encoded],
                             BatchAt(call), call.mmOpen, call.capacity)} :
          /\ diskFile' = IF call.mmOpen THEN [diskFile EXCEPT !.rows = st.rows]
                         ELSE diskFile
          /\ call' = [call EXCEPT !.index = st.index,
                                  !.n_stored = st.n_stored,
                                  !.temp = st.temp,
                                  !.encoded = st.encoded,
                                  !.i = call.i + call.batch_size]
    /\ cpc' = "batches"
    /\ UNCHANGED <<diskIndex, diskMeta, submitted, svars>>
    /\ StepFrame

\* faulty variant: the failing batch is dropped and the loop goes on
OnEncoderRaiseSkip(c) ==
    [pc |-> "batches",
     call |-> [c EXCEPT !.failure = "encoder", !.i = c.i + c.batch_size]]

\* MODEL(**inputs) raises inside the loop: nothing catches it there, the
\* exception leaves generate_url_bert
OnEncoderRaise(c) ==
    [pc |-> "raised", call |-> [c EXCEPT !.failure = "encoder"]]

EncoderRaises ==
    /\ cpc = "batches"
    /\ call.i < Len(call.todo)
    /\ faults < MaxFaults
    /\ faults' = faults + 1
    /\ \E r \in {OnEncoderRaise(call)} :
          /\ cpc' = r.pc
          /\ call' = r.call
    /\ UNCHANGED <<diskIndex, diskMeta, diskFile, submitted, diskTmp, unreadable>>
    /\ StepFrame

\* lines 179-183: joblib.dump(index, index_path)
StepSaveIndex ==
    /\ cpc = "batches"
    /\ call.i >= Len(call.todo)
    /\ diskIndex' = [exists |-> TRUE, map |-> call.index]
    /\ unreadable' = unreadable \ {"index"}
    /\ call' = [call EXCEPT !.saved = {"index"}]
    /\ cpc' = "index_saved"
    /\ UNCHANGED <<diskMeta, diskFile, submitted, diskTmp, faults>>
    /\ StepFrame

\* the dump of the index raises: except Exception: pass skips the dump of
\* the metadata too; the file is as it was or cut short
SaveIndexFails ==
    /\ cpc = "batches"
    /\ call.i >= Len(call.todo)
    /\ faults < MaxFaults
    /\ faults' = faults + 1
    /\ \/ UNCHANGED <<diskIndex, unreadable>>
       \/ /\ diskIndex' = [diskIndex EXCEPT !.exists = TRUE]
          /\ unreadable' = unreadable \cup {"index"}
    /\ cpc' = "output"
    /\ UNCHANGED <<diskMeta, diskFile, submitted, diskTmp, call>>
    /\ StepFrame

\* line 184: joblib.dump(meta, meta_path)
StepSaveMeta ==
    /\ cpc = "index_saved"
    /\ diskMeta' = [exists |-> TRUE, capacity |-> call.capacity,
                    n_stored |-> call.n_stored]
    /\ unreadable' = unreadable \ {"meta"}
    /\ call' = [call EXCEPT !.saved = {"index", "meta"}]
    /\ cpc' = "output"
    /\ UNCHANGED <<diskIndex, diskFile, submitted, diskTmp, faults>>
    /\ StepFrame

\* the dump of the metadata raises and is swallowed
SaveMetaFails ==
    /\ cpc = "index_saved"
    /\ faults < MaxFaults
    /\ faults' = faults + 1
    /\ \/ UNCHANGED <<diskMeta, unreadable>>
       \/ /\ diskMeta' = [diskMeta EXCEPT !.exists = TRUE]
          /\ unreadable' = unreadable \cup {"meta"}
    /\ cpc' = "output"
    /\ UNCHANGED <<diskIndex, diskFile, submitted, diskTmp, call>>
    /\ StepFrame

\* lines 188-205: the per-run matrix is filled and returned; reading an
\* indexed key without a map, or past the map's end, raises
StepOutput ==
    /\ cpc = "output"
    /\ \E bad \in {\E k \in Range(call.urls) \cap DOMAIN call.index :
                       \/ ~call.mmOpen
                       \/ call.index[k] >= call.capacity} :
          IF bad
          THEN /\ cpc' = "raised"
               /\ call' = [call EXCEPT !.failure = "output"]
               /\ UNCHANGED submitted
          ELSE /\ cpc' = "returned"
               /\ call' = [call EXCEPT
                             !.overflow = DOMAIN call.temp,
                             !.out = BuildOutput(Len(call.urls), call.unique,
                                                 call.inv, call.index,
                                                 call.temp, diskFile.rows)]
               /\ submitted' = submitted \cup Range(call.urls)
    /\ UNCHANGED <<diskIndex, diskMeta, diskFile, svars>>
    /\ StepFrame

\* the process is killed in the middle of a call
Interrupt ==
    /\ cpc \notin {"idle", "returned", "raised", "killed"}
    /\ faults < MaxFaults
    /\ faults' = faults + 1
    /\ cpc' = "killed"
    /\ UNCHANGED <<diskIndex, diskMeta, diskFile, submitted, call, diskTmp,
                   unreadable>>
    /\ StepFrame

\* between two runs the index or the metadata file becomes unreadable
CorruptFile ==
    /\ cpc = "idle"
    /\ faults < MaxFaults
    /\ faults' = faults + 1
    /\ \E f \in {"index", "meta"} \ unreadable :
          /\ IF f = "index" THEN diskIndex.exists ELSE diskMeta.exists
          /\ unreadable' = unreadable \cup {f}
    /\ UNCHANGED <<cvars, diskTmp>>
    /\ StepFrame

\* a process whose call raised or that was killed is gone
FailedExit ==
    /\ cpc \in {"raised", "killed"}
    /\ cpc' = "idle"
    /\ call' = NoCall
    /\ UNCHANGED <<diskIndex, diskMeta, diskFile, submitted, svars>>
    /\ StepFrame

StepsInit ==
    /\ StoreInit /\ fixedCap \in CapSet
    /\ NoFaults /\ NoTracker /\ NoFit /\ NoRun /\ NoSeed /\ NoBot

StepsNext ==
    \/ StepCall \/ StepAlloc \/ AllocFails \/ StepRemove \/ StepMove
    \/ MoveFails \/ StepBatch \/ EncoderRaises \/ StepSaveIndex
    \/ SaveIndexFails \/ StepSaveMeta \/ SaveMetaFails \/ StepOutput
    \/ Interrupt \/ CorruptFile \/ ProcessExit \/ FailedExit

SpecSteps == StepsInit /\ [][StepsNext]_vars

(***************************************************************************)
(* SpecRaise: the same steps on the keys 1..LimitKeys, where the only      *)
(* thing that goes wrong is the encoder raising inside the batch loop.     *)
(***************************************************************************)
RaiseCall ==
    \E urls \in LimitLists, batch_size \in 1..MaxBatch :
       StepLoad(urls, batch_size, fixedCap)

RaiseNext ==
    \/ RaiseCall \/ StepAlloc \/ StepRemove \/ StepMove \/ StepBatch
    \/ EncoderRaises \/ StepSaveIndex \/ StepSaveMeta \/ StepOutput
    \/ ProcessExit \/ FailedExit

SpecRaise == StepsInit /\ [][RaiseNext]_vars

(***************************************************************************)
(* ProgressManager (app/core/progress.py) and the protocol lines written   *)
(* by flush_print.                                                         *)
(***************************************************************************)
StatusLine(msg) ==
    [kind |-> "STATUS", pct |-> -1, msg |-> msg, step |-> 0, size |-> 0]
\* faulty variant: the status names the loop variable, which starts at 0
BisectLineFromZero(stepNo, ofSteps, size) ==
    [kind |-> "STATUS", pct |-> -1, msg |-> "Bisecting cluster",
     step |-> stepNo - 1, size |-> size]

BisectLine(stepNo, ofSteps, size) ==
    [kind |-> "STATUS", pct |-> -1, msg |-> "Bisecting cluster",
     step |-> stepNo, size |-> size]
ProgressLine(pct) ==
    [kind |-> "PROGRESS", pct |-> pct, msg |-> "", step |-> 0, size |-> 0]
DoneLine ==
    [kind |-> "DONE", pct |-> -1, msg |-> "", step |-> 0, size |-> 0]

\* faulty variant: the fraction is cut off instead of rounded
PctFloor(current, total_units) == (current * 100) \div total_units

\* int(round(current / total_units * 100)): Python rounds a tie to the even
\* integer; below 40 total units every tie is exact in floating point
Pct(current, total_units) ==
    LET x == current * 100
        q == x \div total_units
        r == x % total_units
    IN  IF 2 * r < total_units THEN q
        ELSE IF 2 * r > total_units THEN q + 1
        ELSE IF q % 2 = 0 THEN q ELSE q + 1

\* ProgressManager.__init__
NewProgressManager(total_units) ==
    [total_units |-> Max(1, total_units), current |-> 0, status |-> ""]

\* ProgressManager.set_status: the new tracker
SetStatus(p, msg) == [p EXCEPT !.status = msg]

\* faulty variant: units is added as given, a negative one lowers current
AdvanceUnclamped(p, units) ==
    [p EXCEPT !.current = Min(p.total_units, p.current + units)]

\* ProgressManager.advance: the new tracker
Advance(p, units) ==
    [p EXCEPT !.current = Min(p.total_units, p.current + Max(0, units))]

\* ProgressManager._report_progress: the line written
ReportProgress(p) == ProgressLine(Pct(p.current, p.total_units))

\* ProgressManager.complete: the new tracker
Complete(p) == [p EXCEPT !.current = p.total_units]

(***************************************************************************)
(* SpecPM: one tracker, any calls.                                         *)
(***************************************************************************)
Messages == {"working", "saving"}

PMSetStatus ==
    /\ Len(out) < MaxLines
    /\ \E msg \in Messages :
          /\ pm' = SetStatus(pm, msg)
          /\ out' = Append(out, StatusLine(msg))
          /\ pmLast' = [op |-> "set_status", units |-> 0]
    /\ UNCHANGED <<pmArg, cvars, fvars, svars, rvars, dvars, wvars, bvars>>

PMAdvance ==
    /\ Len(out) < MaxLines
    /\ \E units \in -1..MaxUnits :
          /\ pm' = Advance(pm, units)
          /\ out' = Append(out, ReportProgress(pm'))
          /\ pmLast' = [op |-> "advance", units |-> units]
    /\ UNCHANGED <<pmArg, cvars, fvars, svars, rvars, dvars, wvars, bvars>>

PMComplete ==
    /\ Len(out) + 1 < MaxLines
    /\ pm' = Complete(pm)
    /\ out' = out \o <<ReportProgress(pm'), DoneLine>>
    /\ pmLast' = [op |-> "complete", units |-> 0]
    /\ UNCHANGED <<pmArg, cvars, fvars, svars, rvars, dvars, wvars, bvars>>

PMInit ==
    /\ pmArg \in -1..MaxTotal
    /\ pm = NewProgressManager(pmArg)
    /\ out = <<>>
    /\ pmLast = [op |-> "init", units |-> 0]
    /\ StoreInit /\ fixedCap = {}
    /\ NoFit /\ NoFaults /\ NoRun /\ NoSeed /\ NoBot

PMNext == PMSetStatus \/ PMAdvance \/ PMComplete

SpecPM == PMInit /\ [][PMNext]_vars

(***************************************************************************)
(* VerboseBisectingKMeans.fit_verbose (app/core/custom_bkm.py) called by   *)
(* bkm_fit (app/core/cluster.py).  The samples have one feature; the tree  *)
(* is kept as the sequence of its leaves in iter_leaves order.             *)
(***************************************************************************)
NSamples == Len(fitX)

\* bkm_total_units = 4 + max(1, n_clusters - 1) + 3
BkmTotalUnits(k) == 4 + Max(1, k - 1) + 3

\* the tracker run_clustering hands to bkm_fit: eight stages, the fit stage
\* worth BkmTotalUnits, five one-unit stages already advanced
PipelineTracker(k) ==
    [total_units |-> 7 + BkmTotalUnits(k), current |-> 5,
     status |-> "Fitting bisecting KMeans on sampled data"]

RECURSIVE SumOver(_, _)
SumOver(f, S) ==
    IF S = {} THEN 0
    ELSE LET i == CHOOSE j \in S : TRUE IN f[i] + SumOver(f, S \ {i})

\* the inertia of one cluster around its mean, as the fraction num / den
InertiaOf(X, S) ==
    IF S = {} THEN [num |-> 0, den |-> 1]
    ELSE LET n == Cardinality(S)
             sx == SumOver(X, S)
             sxx == SumOver([i \in DOMAIN X |-> X[i] * X[i]], S)
         IN  [num |-> n * sxx - sx * sx, den |-> n]

ScoreGreater(a, b) == a.num * b.den > b.num * a.den

\* the mean of one cluster, as the fraction num / den
CenterOf(X, S) == [num |-> SumOver(X, S), den |-> Cardinality(S)]

\* _BisectingTree(indices=np.arange(N), center=X.mean(axis=0), score=0)
RootLeaf(X) ==
    [indices |-> DOMAIN X, score |-> [num |-> 0, den |-> 1], label |-> -1]

\* _BisectingTree.get_cluster_to_bisect: the first leaf, in iter_leaves
\* order, whose score no other leaf exceeds.  Scores that tie at zero are
\* exact; among leaves whose positive scores tie in exact arithmetic the
\* floating-point values decide, so any of them may be taken.
ClusterToBisect(lv) ==
    LET first == CHOOSE p \in 1..Len(lv) :
                    /\ \A q \in 1..(p - 1) : ScoreGreater(lv[p].score, lv[q].score)
                    /\ \A q \in (p + 1)..Len(lv) :
                          ~ScoreGreater(lv[q].score, lv[p].score)
    IN  IF lv[first].score.num = 0 THEN {first}
        ELSE {p \in 1..Len(lv) : ~ScoreGreater(lv[first].score, lv[p].score)}

\* the labellings 2-means can end with on the rows S (_bisect: n_init runs
\* of _kmeans_single, the best kept): rows are labelled by the nearer of
\* two centers, so on one feature a threshold separates label 0 from label
\* 1 and equal rows share a label; when all rows are equal the two centers
\* coincide and every row gets the same label
TwoMeans(X, S) ==
    LET vals == {X[i] : i \in S}
        low(t) == {i \in S : X[i] <= t}
    IN  IF Cardinality(vals) <= 1
        THEN {[left |-> S, right |-> {}], [left |-> {}, right |-> S]}
        ELSE UNION {{[left |-> low(t), right |-> S \ low(t)],
                     [left |-> S \ low(t), right |-> low(t)]} :
                        t \in {v \in vals : \E w \in vals : w > v}}

\* faulty variant: the right child keeps the rows of the left child too
SplitKeepAll(X, leaf, km) ==
    <<[indices |-> km.left, score |-> InertiaOf(X, km.left), label |-> -1],
      [indices |-> leaf.indices, score |-> InertiaOf(X, leaf.indices),
       label |-> -1]>>

\* _BisectingTree.split: left takes the rows labelled 0, right those
\* labelled 1, each with its inertia as score
Split(X, leaf, km) ==
    <<[indices |-> km.left, score |-> InertiaOf(X, km.left), label |-> -1],
      [indices |-> km.right, score |-> InertiaOf(X, km.right), label |-> -1]>>

\* faulty variant: the split leaf stays a leaf next to its children
ReplaceLeafKeepParent(lv, p, children) ==
    SubSeq(lv, 1, p) \o children \o SubSeq(lv, p + 1, Len(lv))

\* the leaves with leaf p replaced by its two children
ReplaceLeaf(lv, p, children) ==
    SubSeq(lv, 1, p - 1) \o children \o SubSeq(lv, p + 1, Len(lv))

\* labels_[node.indices] = i over the leaves, from the initial -1
LabelsOf(X, lv) ==
    [r \in DOMAIN X |->
        IF \E i \in 1..Len(lv) : r \in lv[i].indices
        THEN (CHOOSE i \in 1..Len(lv) :
                 /\ r \in lv[i].indices
                 /\ \A j \in (i + 1)..Len(lv) : r \notin lv[j].indices) - 1
        ELSE -1]

\* faulty variant: random_state=None, the process-wide generator goes on
\* from where the last fit left it
CheckRandomStateGlobal(pos) == pos

\* check_random_state(42): a generator made anew from the seed, at the
\* start of its numbers
CheckRandomState(pos) == 0

RECURSIVE Nth(_, _)
Nth(S, n) ==
    LET x == CHOOSE y \in S : TRUE
    IN  IF n = 0 THEN x ELSE Nth(S \ {x}, n - 1)

\* the outcomes left of the set S once the generator's numbers are known:
\* number 0 stands for what the floating-point values decide, number
\* n >= 1 for the n-th number the generator yields.  While the numbers are
\* not known (rng = <<>>) every outcome is left.
Settled(S, n) ==
    IF rng = <<>> \/ S = {} THEN S
    ELSE {Nth(S, rng[n + 1] % Cardinality(S))}

\* faulty variant: without a tracker the percentage is written before the
\* unit is added
StatusThenAdvanceStale(mode, p, local, k, msg) ==
    IF mode = "direct"
    THEN [pm |-> p, local |-> local + 1,
          lines |-> <<ProgressLine(Pct(local, BkmTotalUnits(k))),
                      StatusLine(msg)>>]
    ELSE [pm |-> Advance(p, 1), local |-> local,
          lines |-> <<StatusLine(msg), ReportProgress(Advance(p, 1))>>]

\* faulty variant: with a tracker the engine still writes the percentage
\* of its own scale
StatusThenAdvanceLocal(mode, p, local, k, msg) ==
    IF mode = "direct"
    THEN [pm |-> p, local |-> local + 1,
          lines |-> <<ProgressLine(Pct(local + 1, BkmTotalUnits(k))),
                      StatusLine(msg)>>]
    ELSE [pm |-> Advance(p, 1), local |-> local + 1,
          lines |-> <<StatusLine(msg),
                      ProgressLine(Pct(local + 1, BkmTotalUnits(k)))>>]

\* one status line and one unit of progress, on the tracker or, without a
\* tracker, on the local scale: [pm, local, lines]
StatusThenAdvance(mode, p, local, k, msg) ==
    IF mode = "direct"
    THEN [pm |-> p, local |-> local + 1,
          lines |-> <<ProgressLine(Pct(local + 1, BkmTotalUnits(k))),
                      StatusLine(msg)>>]
    ELSE [pm |-> Advance(p, 1), local |-> local,
          lines |-> <<StatusLine(msg), ReportProgress(Advance(p, 1))>>]

\* bkm_fit up to the call of fit_verbose, and fit_verbose up to its first
\* report
FitEnter ==
    /\ fpc = "new"
    /\ \E p0 \in {IF fitMode = "own"
                   THEN NewProgressManager(BkmTotalUnits(fitK)) ELSE pm} :
          IF fitK > NSamples
          THEN \* _check_params_vs_input: n_samples should be >= n_clusters
               /\ fpc' = "invalid"
               /\ local_current' = local_current
               /\ rngPos' = rngPos
               /\ IF fitMode = "direct"
                  THEN pm' = pm /\ out' = out
                  ELSE /\ pm' = SetStatus(p0, "Starting BisectingKMeans fitting")
                       /\ out' = Append(out,
                             StatusLine("Starting BisectingKMeans fitting"))
          ELSE /\ fpc' = "init"
               /\ rngPos' = CheckRandomState(rngPos)
               /\ IF fitMode = "direct"
                  THEN /\ pm' = pm
                       /\ local_current' = 1
                       /\ out' = out \o
                            <<StatusLine("Starting BisectingKMeans initialization"),
                              ProgressLine(Pct(1, BkmTotalUnits(fitK)))>>
                  ELSE /\ pm' = Advance(SetStatus(p0,
                                    "Starting BisectingKMeans fitting"), 1)
                       /\ local_current' = 1
                       /\ out' = out \o
                            <<StatusLine("Starting BisectingKMeans fitting"),
                              StatusLine("Starting BisectingKMeans initialization"),
                              ReportProgress(pm')>>
    /\ UNCHANGED <<fitMode, fitX, fitK, step, leaves, labels_, cluster_centers_>>
    /\ UNCHANGED <<pmArg, pmLast, cvars, svars, rvars, rng, firstFit, wvars, bvars>>

\* the k-means backend is chosen
FitBackend ==
    /\ fpc = "init"
    /\ \E r \in {StatusThenAdvance(fitMode, pm, local_current, fitK,
                                    "KMeans algorithm backend configured")} :
          /\ pm' = r.pm
          /\ local_current' = r.local
          /\ out' = out \o r.lines
    /\ fpc' = "backend"
    /\ UNCHANGED <<fitMode, fitX, fitK, step, leaves, labels_, cluster_centers_>>
    /\ UNCHANGED <<pmArg, pmLast, cvars, svars, rvars, dvars, wvars, bvars>>

\* dense data is centered
FitCenter ==
    /\ fpc = "backend"
    /\ \E r \in {StatusThenAdvance(fitMode, pm, local_current, fitK,
                                    "Data centering complete")} :
          /\ pm' = r.pm
          /\ local_current' = r.local
          /\ out' = out \o r.lines
    /\ fpc' = "centered"
    /\ UNCHANGED <<fitMode, fitX, fitK, step, leaves, labels_, cluster_centers_>>
    /\ UNCHANGED <<pmArg, pmLast, cvars, svars, rvars, dvars, wvars, bvars>>

\* the root of the bisecting tree is created
FitRoot ==
    /\ fpc = "centered"
    /\ leaves' = <<RootLeaf(fitX)>>
    /\ \E r \in {StatusThenAdvance(fitMode, pm, local_current, fitK,
                                    "Root cluster created")} :
          /\ pm' = r.pm
          /\ local_current' = r.local
          /\ out' = out \o r.lines
    /\ fpc' = "bisecting"
    /\ UNCHANGED <<fitMode, fitX, fitK, step, labels_, cluster_centers_>>
    /\ UNCHANGED <<pmArg, pmLast, cvars, svars, rvars, dvars, wvars, bvars>>

\* one pass of the loop: for step in range(n_clusters - 1)
FitBisect ==
    /\ fpc = "bisecting"
    /\ step < fitK - 1
    /\ \E p \in Settled(ClusterToBisect(leaves), 0) :
       \E line \in {BisectLine(step + 1, Max(1, fitK - 1),
                                Cardinality(leaves[p].indices))} :
          IF leaves[p].indices = {}
          THEN \* k-means++ has no row to draw its first center from
               /\ fpc' = "raised"
               /\ out' = Append(out, line)
               /\ UNCHANGED <<pm, local_current, step, leaves, rngPos>>
          ELSE \E km \in Settled(TwoMeans(fitX, leaves[p].indices), rngPos + 1) :
                  /\ leaves' = ReplaceLeaf(leaves, p, Split(fitX, leaves[p], km))
                  /\ rngPos' = IF rng = <<>> THEN rngPos ELSE rngPos + 1
                  /\ step' = step + 1
                  /\ fpc' = "bisecting"
                  /\ IF fitMode = "direct"
                     THEN /\ local_current' = local_current + 1
                          /\ pm' = pm
                          /\ out' = out \o
                               <<line, ProgressLine(Pct(local_current + 1,
                                                        BkmTotalUnits(fitK)))>>
                     ELSE /\ local_current' = local_current
                          /\ pm' = Advance(pm, 1)
                          /\ out' = out \o <<line, ReportProgress(pm')>>
    /\ UNCHANGED <<fitMode, fitX, fitK, labels_, cluster_centers_>>
    /\ UNCHANGED <<pmArg, pmLast, cvars, svars, rvars, rng, firstFit, wvars, bvars>>

\* the leaves are labelled in iter_leaves order and give up their indices
FitLabel ==
    /\ fpc = "bisecting"
    /\ step = Max(0, fitK - 1)
    /\ IF fitK < 0
       THEN \* np.empty((n_clusters, D)) refuses a negative dimension
            /\ labels_' = [r \in DOMAIN fitX |-> -1]
            /\ fpc' = "crashed"
            /\ UNCHANGED <<cluster_centers_, leaves>>
       ELSE IF Len(leaves) > fitK
       THEN \* cluster_centers_[i] = node.center with i = n_clusters: the
            \* rows of leaf i are labelled, then the index is out of bounds
            /\ labels_' = LabelsOf(fitX, SubSeq(leaves, 1, fitK + 1))
            /\ cluster_centers_' =
                  [i \in 1..fitK |-> CenterOf(fitX, leaves[i].indices)]
            /\ leaves' = [i \in 1..Len(leaves) |->
                            IF i <= fitK
                            THEN [leaves[i] EXCEPT !.label = i - 1, !.indices = {}]
                            ELSE leaves[i]]
            /\ fpc' = "crashed"
       ELSE /\ labels_' = LabelsOf(fitX, leaves)
            /\ cluster_centers_' =
                  [i \in 1..fitK |-> CenterOf(fitX, leaves[i].indices)]
            /\ leaves' = [i \in 1..Len(leaves) |->
                            [leaves[i] EXCEPT !.label = i - 1, !.indices = {}]]
            /\ fpc' = "labelled"
    /\ UNCHANGED <<fitMode, fitX, fitK, step, local_current, pm, out>>
    /\ UNCHANGED <<pmArg, pmLast, cvars, svars, rvars, dvars, wvars, bvars>>

\* the last report of fit_verbose, and the rest of bkm_fit
FitFinish ==
    /\ fpc = "labelled"
    /\ IF fitMode = "direct"
       THEN /\ local_current' = BkmTotalUnits(fitK)
            /\ pm' = pm
            /\ out' = out \o
                 <<ProgressLine(Pct(local_current + 1, BkmTotalUnits(fitK))),
                   ProgressLine(Pct(local_current + 1, BkmTotalUnits(fitK))),
                   StatusLine("Clustering finished"),
                   ProgressLine(Pct(BkmTotalUnits(fitK), BkmTotalUnits(fitK))),
                   DoneLine>>
       ELSE /\ local_current' = local_current
            /\ pm' = SetStatus(Advance(pm, 1), "BisectingKMeans fit complete")
            /\ out' = out \o
                 <<ReportProgress(pm'), StatusLine("Clustering finished"),
                   StatusLine("BisectingKMeans fit complete")>>
    /\ fpc' = "returned"
    /\ UNCHANGED <<fitMode, fitX, fitK, step, leaves, labels_, cluster_centers_>>
    /\ UNCHANGED <<pmArg, pmLast, cvars, svars, rvars, dvars, wvars, bvars>>

FitInit ==
    /\ fitMode \in {"own", "shared", "direct"}
    /\ fitX \in UNION {[1..n -> 0..MaxVal] : n \in 1..MaxN}
    /\ fitK \in 1..Len(fitX)
    /\ fpc = "new"
    /\ step = 0
    /\ leaves = <<>>
    /\ labels_ = <<>>
    /\ cluster_centers_ = <<>>
    /\ local_current = 0
    /\ pm = IF fitMode = "shared" THEN PipelineTracker(fitK)
            ELSE NewProgressManager(1)
    /\ out = <<>>
    /\ pmArg = pm.total_units
    /\ pmLast = [op |-> "init", units |-> 0]
    /\ StoreInit /\ fixedCap = {}
    /\ NoFaults /\ NoRun /\ NoSeed /\ NoBot

FitNext ==
    \/ FitEnter \/ FitBackend \/ FitCenter \/ FitRoot
    \/ FitBisect \/ FitLabel \/ FitFinish

SpecFit == FitInit /\ [][FitNext]_vars

\* the same fit called with any n_clusters from -1 to one more than the rows
FitAnyInit ==
    /\ fitMode \in {"own", "shared", "direct"}
    /\ fitX \in UNION {[1..n -> 0..MaxVal] : n \in 1..MaxN}
    /\ fitK \in (-1)..(Len(fitX) + 1)
    /\ fpc = "new"
    /\ step = 0
    /\ leaves = <<>>
    /\ labels_ = <<>>
    /\ cluster_centers_ = <<>>
    /\ local_current = 0
    /\ pm = IF fitMode = "shared" THEN PipelineTracker(fitK)
            ELSE NewProgressManager(1)
    /\ out = <<>>
    /\ pmArg = pm.total_units
    /\ pmLast = [op |-> "init", units |-> 0]
    /\ StoreInit /\ fixedCap = {}
    /\ NoFaults /\ NoRun /\ NoSeed /\ NoBot

SpecFitAny == FitAnyInit /\ [][FitNext]_vars

(***************************************************************************)
(* SpecTwice: bkm_fit called twice on the same matrix with the same        *)
(* n_clusters.  The numbers that a generator seeded with 42 yields are not *)
(* known, but they are the same numbers every time: rng is any sequence of *)
(* them, fixed for the behaviour.                                          *)
(***************************************************************************)
\* the caller keeps what the first fit returned and calls bkm_fit again:
\* a new estimator with random_state=42
FitAgain ==
    /\ fpc = "returned"
    /\ firstFit = <<>>
    /\ firstFit' = [labels |-> labels_, centers |-> cluster_centers_]
    /\ fpc' = "new"
    /\ step' = 0
    /\ leaves' = <<>>
    /\ labels_' = <<>>
    /\ cluster_centers_' = <<>>
    /\ local_current' = 0
    /\ UNCHANGED <<fitMode, fitX, fitK, pmvars, rng, rngPos>>
    /\ UNCHANGED <<cvars, svars, rvars, wvars, bvars>>

TwiceInit ==
    /\ fitMode = "own"
    /\ fitX \in UNION {[1..n -> 0..TwiceVal] : n \in 1..TwiceN}
    /\ fitK \in 1..Len(fitX)
    /\ fpc = "new"
    /\ step = 0
    /\ leaves = <<>>
    /\ labels_ = <<>>
    /\ cluster_centers_ = <<>>
    /\ local_current = 0
    /\ pm = NewProgressManager(1)
    /\ out = <<>>
    /\ pmArg = pm.total_units
    /\ pmLast = [op |-> "init", units |-> 0]
    /\ rng \in [1..(2 * TwiceN - 1) -> 0..1]
    /\ rngPos = 0
    /\ firstFit = <<>>
    /\ StoreInit /\ fixedCap = {}
    /\ NoFaults /\ NoRun /\ NoBot

TwiceNext == FitNext \/ FitAgain

SpecTwice == TwiceInit /\ [][TwiceNext]_vars

(***************************************************************************)
(* SpecRun: run_clustering (app/core/cluster.py), one process per run, run *)
(* after run on the same cache directory, without --max-cache-rows and     *)
(* without --force-embed.  The input has one row per url, fewer than       *)
(* 200000 rows (no sampling), and n_clusters is at most the row count.     *)
(***************************************************************************)
\* astype(np.float32) of a half-precision row: the same numbers, wider
ToF32(v) == <<"f32", v>>
\* a full-precision row divided by its norm: the unit vector of its direction
Normalize(r) == <<"unit", r[2]>>

F32Rows(m) == [i \in 1..Len(m) |-> ToF32(m[i])]

NormRows(m) == [i \in 1..Len(m) |-> Normalize(m[i])]

\* lines 241-266: [mat, memmap, file]: the full-precision matrix, whether
\* it is a memory map, and url_embeddings_f32.memmap afterwards.  An
\* existing file is mapped with this run's shape; a file too short for the
\* shape makes np.memmap raise and the matrix is converted in memory.
DeriveF32(m16, f32file) ==
    IF f32file.exists
    THEN IF Len(f32file.rows) >= Len(m16)
         THEN [mat |-> SubSeq(f32file.rows, 1, Len(m16)), memmap |-> TRUE,
               file |-> f32file]
         ELSE [mat |-> F32Rows(m16), memmap |-> FALSE, file |-> f32file]
    ELSE [mat |-> F32Rows(m16), memmap |-> TRUE,
          file |-> [exists |-> TRUE, rows |-> F32Rows(m16)]]

\* lines 268-303: [mat, file]: the normalised matrix and
\* url_embeddings_f32_norm.memmap afterwards
DeriveNorm(d, normfile) ==
    IF d.memmap
    THEN IF normfile.exists /\ Len(normfile.rows) >= Len(d.mat)
         THEN [mat |-> SubSeq(normfile.rows, 1, Len(d.mat)), file |-> normfile]
         ELSE LET src == SubSeq(d.file.rows, 1, Len(d.mat))
              IN  [mat |-> NormRows(src),
                   file |-> [exists |-> TRUE, rows |-> NormRows(src)]]
    ELSE [mat |-> NormRows(d.mat), file |-> normfile]

\* the normalised url matrix as combine_features gets it: a dense array (a
\* memory map is an ndarray too), its columns standing as one
UrlBlock(m) == [kind |-> "ndarray", rows |-> [i \in 1..Len(m) |-> <<m[i]>>],
                rest |-> <<>>]

\* encode_methods, encode_statuses, normalize_sizes, vectorize_user_agents:
\* each returns a sparse matrix with the rows in the order of the input
SparseBlock(group, n) ==
    [kind |-> "sparse", rows |-> [i \in 1..n |-> <<<<group, i>>>>], rest |-> <<>>]

RECURSIVE ConcatAt(_, _)
ConcatAt(arrays, i) ==
    IF arrays = <<>> THEN <<>>
    ELSE Head(arrays).rows[i] \o ConcatAt(Tail(arrays), i)

\* hstack: row i is the columns of row i of every array, in argument order
HStack(arrays) ==
    IF arrays = <<>> THEN <<>>
    ELSE [i \in 1..Len(arrays[1].rows) |-> ConcatAt(arrays, i)]

\* combine_features(*arrays), the arrays that are None left out before
CombineFeatures(arrays) ==
    IF arrays = <<>> THEN NoArray
    ELSE IF /\ arrays[1].kind = "ndarray"
            /\ \E j \in 2..Len(arrays) : arrays[j].kind = "sparse"
    THEN [kind |-> "tuple", rows |-> arrays[1].rows, rest |-> HStack(Tail(arrays))]
    ELSE IF \E j \in 1..Len(arrays) : arrays[j].kind = "sparse"
    THEN [kind |-> "sparse", rows |-> HStack(arrays), rest |-> <<>>]
    ELSE [kind |-> "ndarray", rows |-> HStack(arrays), rest |-> <<>>]

\* sample_frac in percent: the default 0.2 and 1.0
SampleFracs == {20, 100}

\* np.sort(df.sample(frac=sample_frac, random_state=42).index.values): the
\* sorted positions of round(frac * n) rows, which rows the seed decides
DfSample(n, sample_frac) ==
    {SetToSortedSeq(S) :
        S \in {T \in SUBSET (1..n) :
                 Cardinality(T) = (sample_frac * n + 50) \div 100}}

\* final_features[idx]: a tuple cannot be indexed by an array
CanIndex(f) == f.kind # "tuple"

TakeRows(f, idx) ==
    [kind |-> f.kind, rows |-> [j \in 1..Len(idx) |-> f.rows[idx[j]]],
     rest |-> <<>>]

\* bkm_fit and predict_labels: of a pair whose first part is an ndarray
\* only the first part is used
FeaturesToUse(f) ==
    IF f.kind = "tuple"
    THEN [kind |-> "ndarray", rows |-> f.rows, rest |-> <<>>]
    ELSE f

\* faulty variant: the engine is called without the tracker
RunFitModeDirect == "direct"

\* bkm_fit(features_sample, n_clusters, progress_manager=progress)
RunFitMode == "shared"

\* set_status(msg) followed by advance(units) on the tracker: [pm, lines]
StageDone(p, msgs, units) ==
    [pm |-> Advance(SetStatus(p, msgs[Len(msgs)]), units),
     lines |-> [i \in 1..Len(msgs) |-> StatusLine(msgs[i])]
               \o (IF units > 0 THEN <<ReportProgress(Advance(p, units))>>
                   ELSE <<>>)]

RunFrame == UNCHANGED <<pmArg, pmLast, svars, fixedCap, growths, dvars, wvars, bvars>>

\* lines 181-218: the tracker is made for 7 one-unit stages and the fit
RunStart ==
    /\ rpc = "off"
    /\ \E urls \in StepLists, k \in 1..NKeys :
          /\ k <= Len(urls)
          /\ fitK' = k
          /\ fitX' = urls
          /\ pm' = SetStatus(NewProgressManager(7 + BkmTotalUnits(k)),
                             "Initializing pipeline")
    /\ out' = <<StatusLine("Initializing pipeline")>>
    /\ rpc' = "read"
    /\ UNCHANGED <<cvars, diskF32, diskNorm, handed, features>>
    /\ UNCHANGED <<fitMode, fpc, step, leaves, labels_, cluster_centers_,
                   local_current>>
    /\ RunFrame

\* lines 220-230: the log is parsed and tokenised
RunRead ==
    /\ rpc = "read"
    /\ \E r1 \in {StageDone(pm, <<"Reading and parsing data">>, 1)} :
       \E r2 \in {StageDone(r1.pm, <<"Extracting and tokenizing features">>, 1)} :
          /\ pm' = r2.pm
          /\ out' = out \o r1.lines \o r2.lines
    /\ rpc' = "embed"
    /\ UNCHANGED <<cvars, fvars, diskF32, diskNorm, handed, features>>
    /\ RunFrame

\* lines 232-239: the urls are embedded through the cache
RunEmbed ==
    /\ rpc = "embed"
    /\ pm' = SetStatus(pm, "Generating URL embeddings using BERT")
    /\ out' = Append(out, StatusLine("Generating URL embeddings using BERT"))
    /\ GenerateUrlBert(fitX, 32, {})
    /\ rpc' = "derive"
    /\ UNCHANGED <<fvars, diskF32, diskNorm, handed, features>>
    /\ RunFrame

\* lines 241-304: the full-precision and the normalised copy
RunDerive ==
    /\ rpc = "derive"
    /\ \E d \in {DeriveF32(call.out, diskF32)} :
       \E n \in {DeriveNorm(d, diskNorm)} :
          /\ diskF32' = d.file
          /\ diskNorm' = n.file
          /\ handed' = n.mat
    /\ pm' = Advance(pm, 1)
    /\ out' = Append(out, ReportProgress(pm'))
    /\ rpc' = "vectorize"
    /\ UNCHANGED <<cvars, fvars, features>>
    /\ RunFrame

\* lines 306-323: the other features are vectorised, all are combined and
\* the sample is taken; the combined rows are any values
RunCombine ==
    /\ rpc = "vectorize"
    /\ \E r1 \in {StageDone(pm, <<"Vectorizing other features">>, 1)} :
       \E r2 \in {StageDone(r1.pm, <<"Combining feature matrices">>, 1)} :
          /\ pm' = r2.pm
          /\ out' = out \o r1.lines \o r2.lines
    /\ \E final \in {CombineFeatures(<<UrlBlock(handed),
                                        SparseBlock("method", Len(handed)),
                                        SparseBlock("status", Len(handed)),
                                        SparseBlock("size", Len(handed)),
                                        SparseBlock("ua", Len(handed))>>)},
          sample_frac \in SampleFracs :
          IF Len(handed) > SampleOver /\ sample_frac < 100
          THEN IF ~CanIndex(final)
               THEN \* final_features[idx] raises TypeError
                    /\ features' = [features EXCEPT !.final = final]
                    /\ fitX' = fitX
                    /\ rpc' = "failed"
               ELSE \E idx \in DfSample(Len(handed), sample_frac) :
                       /\ features' = [features EXCEPT
                                          !.final = final,
                                          !.sample = TakeRows(final, idx),
                                          !.sampleIdx = idx]
                       /\ fitX' \in [1..Len(idx) -> 0..RunVal]
                       /\ rpc' = "fit"
          ELSE /\ features' = [features EXCEPT
                                  !.final = final,
                                  !.sample = final,
                                  !.sampleIdx = [i \in 1..Len(handed) |-> i]]
               /\ fitX' \in [1..Len(call.urls) -> 0..RunVal]
               /\ rpc' = "fit"
    /\ UNCHANGED <<cvars, diskF32, diskNorm, handed>>
    /\ UNCHANGED <<fitMode, fitK, fpc, step, leaves, labels_, cluster_centers_,
                   local_current>>
    /\ RunFrame

\* lines 325-326: bkm_fit is entered
RunFit ==
    /\ rpc = "fit"
    /\ fpc = "off"
    /\ pm' = SetStatus(pm, "Fitting bisecting KMeans on sampled data")
    /\ out' = Append(out, StatusLine("Fitting bisecting KMeans on sampled data"))
    /\ fitMode' = RunFitMode
    /\ fpc' = "new"
    /\ features' = [features EXCEPT !.fit = FeaturesToUse(features.sample)]
    /\ UNCHANGED <<cvars, rpc, diskF32, diskNorm, handed>>
    /\ UNCHANGED <<fitX, fitK, step, leaves, labels_, cluster_centers_,
                   local_current>>
    /\ RunFrame

\* lines 328-337: labels are predicted, outputs saved, metrics written
RunSave ==
    /\ rpc = "fit"
    /\ fpc = "returned"
    /\ \E r1 \in {StageDone(pm, <<"Predicting cluster labels",
                                   "Generating cluster labels",
                                   "Cluster labels ready">>, 0)} :
       \E r2 \in {StageDone(r1.pm, <<"Saving clustered outputs",
                                      "Attaching labels to DataFrame",
                                      "Writing compressed CSV",
                                      "Compressed CSV saved",
                                      "Writing text summary",
                                      "Cluster summaries saved">>, 1)} :
       \E r3 \in {StageDone(r2.pm, <<"Evaluating clustering (metrics)",
                                      "Evaluating clustering metrics",
                                      "Metrics saved">>, 1)} :
          /\ pm' = r3.pm
          /\ out' = out \o r1.lines \o r2.lines \o r3.lines
    /\ features' = [features EXCEPT
          !.predict = FeaturesToUse(features.final),
          !.evalLab = [i \in 1..Len(FeaturesToUse(features.final).rows) |-> i],
          !.evalFeat = features.sampleIdx]
    /\ rpc' = "finish"
    /\ UNCHANGED <<cvars, fvars, diskF32, diskNorm, handed>>
    /\ RunFrame

\* lines 339-340: the last status and complete()
RunComplete ==
    /\ rpc = "finish"
    /\ pm' = Complete(SetStatus(pm, "Results saved"))
    /\ out' = out \o <<StatusLine("Results saved"), ReportProgress(pm'),
                        DoneLine>>
    /\ rpc' = "done"
    /\ UNCHANGED <<cvars, fvars, diskF32, diskNorm, handed, features>>
    /\ RunFrame

\* the process of a run ends, by returning or with an exception: its
\* tracker, its stdout and its matrices are gone, the cache directory stays
RunExit ==
    /\ \/ rpc = "done"
       \/ rpc = "failed"
       \/ rpc = "fit" /\ fpc = "raised"
    /\ rpc' = "off"
    /\ handed' = <<>>
    /\ features' = NoFeatures
    /\ cpc' = "idle"
    /\ call' = NoCall
    /\ pm' = [total_units |-> 1, current |-> 0, status |-> ""]
    /\ out' = <<>>
    /\ fitMode' = "off" /\ fitX' = <<>> /\ fitK' = 0 /\ fpc' = "off"
    /\ step' = 0 /\ leaves' = <<>> /\ labels_' = <<>>
    /\ cluster_centers_' = <<>> /\ local_current' = 0
    /\ UNCHANGED <<diskIndex, diskMeta, diskFile, submitted, diskF32, diskNorm>>
    /\ RunFrame

RunInit ==
    /\ StoreInit /\ fixedCap = {}
    /\ NoTracker /\ NoFit /\ NoFaults /\ NoRun /\ NoSeed /\ NoBot

RunNext ==
    \/ RunStart \/ RunRead \/ RunEmbed \/ RunDerive \/ RunCombine \/ RunFit
    \/ FitEnter \/ FitBackend \/ FitCenter \/ FitRoot
    \/ FitBisect \/ FitLabel \/ FitFinish
    \/ RunSave \/ RunComplete \/ RunExit

SpecRun == RunInit /\ [][RunNext]_vars

(***************************************************************************)
(* Bot verification (app/core/bot.py).                                     *)
(***************************************************************************)
Ips == 1..NIps

\* KNOWN_BOTS in the order of the dict, cut to its first two entries
KNOWN_BOTS ==
    <<[bot |-> "Googlebot", suffixes |-> {".googlebot.com"}],
      [bot |-> "Bingbot", suffixes |-> {".search.msn.com"}]>>

\* a user-agent is the set of the bot names it contains
UserAgents == SUBSET {KNOWN_BOTS[i].bot : i \in 1..Len(KNOWN_BOTS)}

\* what reverse_dns(ip) can give: None, a host name (known by its ending),
\* or an exception other than socket.herror
ReverseResults ==
    {[kind |-> "none", suffix |-> ""], [kind |-> "raise", suffix |-> ""]}
    \cup {[kind |-> "host", suffix |-> sfx] :
              sfx \in {".googlebot.com", ".search.msn.com", ".example.org"}}

\* what forward_dns(rdns) can give: None (0), an address, or an exception
\* other than socket.gaierror (-1)
ForwardResults == {0, -1} \cup Ips

\* pickle_load: the pickled set, or set() when the file cannot be read
PickleLoad(f) == IF f.exists THEN f.ips ELSE {}

\* the first entry of KNOWN_BOTS whose name the user-agent contains, 0 if none
FirstBot(ua) ==
    IF \E i \in 1..Len(KNOWN_BOTS) : KNOWN_BOTS[i].bot \in ua
    THEN CHOOSE i \in 1..Len(KNOWN_BOTS) :
            /\ KNOWN_BOTS[i].bot \in ua
            /\ \A j \in 1..(i - 1) : KNOWN_BOTS[j].bot \notin ua
    ELSE 0

\* faulty variant: the cached verdicts are never consulted
CachedNever(ip, ips) == FALSE

\* ip in verified_bot_ips / ip in spoofed_bot_ips
Cached(ip, ips) == ip \in ips

BotFrame == UNCHANGED <<cvars, pmvars, fvars, svars, rvars, dvars, wvars>>

\* import of bot.py: both sets are loaded
BotStart ==
    /\ bpc = "off"
    /\ bpc' = "up"
    /\ verified_bot_ips' = PickleLoad(diskVerified)
    /\ spoofed_bot_ips' = PickleLoad(diskSpoofed)
    /\ botCall' = NoBotCall
    /\ UNCHANGED <<diskVerified, diskSpoofed>>
    /\ BotFrame

\* is_valid_bot(ip, ua)
IsValidBot ==
    /\ bpc = "up"
    /\ \E ip \in Ips, ua \in UserAgents :
       \E rdns \in ReverseResults, fwd \in ForwardResults :
       \E b \in {FirstBot(ua)} :
       \E r \in {IF Cached(ip, verified_bot_ips)
                 THEN [result |-> "True", lookups |-> 0, add |-> "none"]
                 ELSE IF Cached(ip, spoofed_bot_ips)
                 THEN [result |-> "False", lookups |-> 0, add |-> "none"]
                 ELSE IF b = 0
                 THEN [result |-> "False", lookups |-> 0, add |-> "none"]
                 ELSE IF rdns.kind = "raise"
                 THEN [result |-> "raised", lookups |-> 1, add |-> "none"]
                 ELSE IF rdns.kind = "none"
                         \/ rdns.suffix \notin KNOWN_BOTS[b].suffixes
                 THEN [result |-> "False", lookups |-> 1, add |-> "spoofed"]
                 ELSE IF fwd = -1
                 THEN [result |-> "raised", lookups |-> 2, add |-> "none"]
                 ELSE IF fwd # ip
                 THEN [result |-> "False", lookups |-> 2, add |-> "spoofed"]
                 ELSE [result |-> "True", lookups |-> 2,
                       add |-> "verified"]} :
          /\ verified_bot_ips' = IF r.add = "verified"
                                 THEN verified_bot_ips \cup {ip}
                                 ELSE verified_bot_ips
          /\ spoofed_bot_ips' = IF r.add = "spoofed"
                                THEN spoofed_bot_ips \cup {ip}
                                ELSE spoofed_bot_ips
          /\ botCall' = [ip |-> ip, ua |-> ua, result |-> r.result,
                         lookups |-> r.lookups]
    /\ UNCHANGED <<bpc, diskVerified, diskSpoofed>>
    /\ BotFrame

\* the process ends: save_ip_caches runs at exit
BotExit ==
    /\ bpc = "up"
    /\ bpc' = "off"
    /\ diskVerified' = [exists |-> TRUE, ips |-> verified_bot_ips]
    /\ diskSpoofed' = [exists |-> TRUE, ips |-> spoofed_bot_ips]
    /\ UNCHANGED <<verified_bot_ips, spoofed_bot_ips, botCall>>
    /\ BotFrame

BotInit ==
    /\ NoBot
    /\ StoreInit /\ fixedCap = {} /\ NoTracker /\ NoFit /\ NoFaults /\ NoRun
    /\ rng = <<>> /\ rngPos = 0 /\ firstFit = <<>>

BotNext == BotStart \/ IsValidBot \/ BotExit

SpecBot == BotInit /\ [][BotNext]_vars

(***************************************************************************)
(* The embedding cache: properties.                                        *)
(***************************************************************************)
NoDuplicates(s) == \A i, j \in 1..Len(s) : s[i] = s[j] => i = j

\* the row the store holds for an indexed key
StoredRow(k) == diskFile.rows[diskIndex.map[k] + 1]

\* C1: in one call the encoder is invoked at most once per distinct key,
\* exactly once for every distinct key that was not indexed when the call
\* started and never for a repeated position; the result has one row per
\* input position and positions holding the same key get equal rows.
C1_OncePerKey ==
    [][cpc' = "returned" =>
        /\ NoDuplicates(call'.encoded)
        /\ Range(call'.encoded) \subseteq Range(call'.urls)
        /\ \A k \in Range(call'.urls) \ DOMAIN diskIndex.map :
              Cardinality({i \in 1..Len(call'.encoded) : call'.encoded[i] = k}) = 1
        /\ Len(call'.out) = Len(call'.urls)
        /\ \A i, j \in 1..Len(call'.urls) :
              call'.urls[i] = call'.urls[j] => call'.out[i] = call'.out[j]]_cvars

\* a call on [a, b, a] that computed a and b once each: rows 1 and 3 agree
C1_Witness ==
    /\ cpc = "returned"
    /\ Len(call.urls) = 3
    /\ call.urls[1] = call.urls[3]
    /\ call.urls[1] # call.urls[2]
    /\ Len(call.encoded) = 2
    /\ call.out[1] = call.out[3]
    /\ call.out[1] # call.out[2]

\* C2: a call that starts from the index and metadata an earlier call left
\* on disk invokes the encoder exactly for the keys absent from that index;
\* a key persisted before is not encoded and its row is the encoder's vector
\* of that key.
C2_PersistedNotReencoded ==
    [][cpc' = "returned" =>
        /\ Range(call'.encoded) = Range(call'.urls) \ DOMAIN diskIndex.map
        /\ \A i \in 1..Len(call'.urls) :
              call'.urls[i] \in DOMAIN diskIndex.map =>
                 call'.out[i] = Enc16(call'.urls[i])]_cvars

\* the call [x, y] after x was persisted: the encoder saw y only
C2_Witness ==
    /\ cpc = "returned"
    /\ call.urls = <<1, 2>>
    /\ call.encoded = <<2>>
    /\ call.out = <<Enc16(1), Enc16(2)>>

\* C3: no stored vector is lost, however often the store grows: every step
\* keeps every index entry at its offset and the row at that offset, and a
\* call returns for a key indexed before it the row the store held.
C3_StoredVectorsKept ==
    [][/\ \A k \in DOMAIN diskIndex.map :
             /\ k \in DOMAIN diskIndex'.map
             /\ diskIndex'.map[k] = diskIndex.map[k]
             /\ diskIndex'.map[k] < Len(diskFile'.rows)
             /\ diskFile'.rows[diskIndex'.map[k] + 1] = StoredRow(k)
       /\ cpc' = "returned" =>
             \A i \in 1..Len(call'.urls) :
                call'.urls[i] \in DOMAIN diskIndex.map =>
                   call'.out[i] = StoredRow(call'.urls[i])]_cvars

\* after five growth cycles the first key ever stored is asked for again and
\* comes back from offset 0 with the encoder's vector
C3_Witness ==
    /\ cpc = "returned"
    /\ growths >= 5
    /\ call.urls[1] = 1
    /\ 1 \notin Range(call.encoded)
    /\ diskIndex.map[1] = 0
    /\ call.out[1] = Enc16(1)

\* C6: under max_cache_rows = M the store never holds more than M persisted
\* rows: the stored count, the index entries and the rows written are <= M.
C6_CapBoundsStore ==
    fixedCap # {} =>
        /\ diskMeta.n_stored <= CapOf(fixedCap)
        /\ Cardinality(DOMAIN diskIndex.map) <= CapOf(fixedCap)
        /\ Cardinality({o \in 1..Len(diskFile.rows) :
                            diskFile.rows[o] # ZeroRow}) <= CapOf(fixedCap)

\* more than M distinct keys were submitted and the store is full at M
C6_Witness ==
    /\ fixedCap # {}
    /\ Cardinality(submitted) > CapOf(fixedCap)
    /\ diskMeta.n_stored = CapOf(fixedCap)
    /\ call.overflow # {}

\* C7: every call returns for every position the encoder's vector of that
\* position's key, from the store for an indexed key and from the overflow
\* for a key that was not persisted; no row is the zero placeholder.
C7_RowsCorrect ==
    cpc = "returned" =>
        /\ Len(call.out) = Len(call.urls)
        /\ \A i \in 1..Len(call.urls) :
              /\ call.out[i] = Enc16(call.urls[i])
              /\ call.out[i] # ZeroRow
              /\ call.urls[i] \in DOMAIN diskIndex.map =>
                    call.out[i] = StoredRow(call.urls[i])
              /\ call.urls[i] \notin DOMAIN diskIndex.map =>
                    call.urls[i] \in call.overflow

\* one call returned a persisted key and a key held only in the overflow
C7_Witness ==
    /\ cpc = "returned"
    /\ \E i, j \in 1..Len(call.urls) :
          /\ call.urls[i] \in call.overflow
          /\ call.urls[i] \notin DOMAIN diskIndex.map
          /\ call.urls[j] \in DOMAIN diskIndex.map
          /\ call.out[i] = Enc16(call.urls[i])
          /\ call.out[j] = Enc16(call.urls[j])

\* C16: distinct keys of the on-disk index have distinct offsets, every
\* offset lies below the stored count, and no step changes or drops the
\* offset of a key that has one.
C16_OffsetsNeverReassigned ==
    /\ [](/\ \A k1, k2 \in DOMAIN diskIndex.map :
                k1 # k2 => diskIndex.map[k1] # diskIndex.map[k2]
          /\ \A k \in DOMAIN diskIndex.map :
                diskIndex.map[k] \in 0..(diskMeta.n_stored - 1))
    /\ [][\A k \in DOMAIN diskIndex.map :
             /\ k \in DOMAIN diskIndex'.map
             /\ diskIndex'.map[k] = diskIndex.map[k]]_vars

\* key 2 was stored by an earlier call than key 1: offsets in arrival order
C16_Witness ==
    /\ cpc = "returned"
    /\ DOMAIN diskIndex.map = {1, 2}
    /\ diskIndex.map[2] = 0
    /\ diskIndex.map[1] = 1
    /\ call.encoded = <<1>>

\* C15 as claimed: through a growth, interrupted or not, the store path
\* always holds a data file: once the file is there no step leaves the path
\* without one.
C15_StoreFileAlwaysThere ==
    [][diskFile.exists => diskFile'.exists]_vars

\* C17 as claimed: a call that finds the index or the metadata unreadable
\* treats the store as empty, index and stored count both reset, and does
\* not fail.
C17_UnreadableStoreIsEmptied ==
    (cpc # "idle" /\ call.loaded.recovered # {}) =>
        /\ call.loaded.index = EmptyIndex
        /\ call.loaded.n_stored = 0
        /\ call.loaded.capacity = 0
        /\ cpc # "raised"

\* C18: when the encoder raises on a batch the call ends there with the
\* exception: no matrix is returned, and the only step that follows is the
\* end of the process, so no batch is encoded after the failure.
C18_EncoderErrorPropagates ==
    /\ []((cpc # "idle" /\ call.failure = "encoder") =>
            /\ cpc = "raised"
            /\ call.out = <<>>)
    /\ [][(cpc = "raised" /\ call.failure = "encoder") =>
            /\ cpc' = "idle"
            /\ call' = NoCall]_vars

\* the encoder raised on the second batch, after the first was stored
C18_Witness ==
    /\ cpc = "raised"
    /\ call.failure = "encoder"
    /\ call.todo = <<1, 2>>
    /\ call.encoded = <<1>>
    /\ call.i = 1
    /\ call.out = <<>>

\* C19 as claimed: when a call that encoded new keys has returned, the index
\* and the metadata on disk are the ones the call ended with.
C19_SavedBeforeReturn ==
    (cpc = "returned" /\ call.encoded # <<>>) =>
        /\ unreadable = {}
        /\ diskIndex = [exists |-> TRUE, map |-> call.index]
        /\ diskMeta = [exists |-> TRUE, capacity |-> call.capacity,
                       n_stored |-> call.n_stored]

\* C8 as claimed: a call never invokes the encoder for a key that an
\* earlier call submitted, whatever max_cache_rows is.
C8_NeverReencodesSubmitted ==
    [][cpc' = "returned" => Range(call'.encoded) \cap submitted = {}]_cvars

\* C8 amended: of the keys submitted before, a call invokes the encoder
\* exactly for those that have no index entry (the ones a capped store kept
\* only in the overflow); a key an earlier call persisted is never encoded
\* again.
C8_ReencodesOnlyUnpersisted ==
    [][cpc' = "returned" =>
        Range(call'.encoded) \cap submitted =
            (Range(call'.urls) \cap submitted) \ DOMAIN diskIndex.map]_cvars

\* a call on keys that were all submitted and persisted before: no encoding
C8_Witness ==
    /\ cpc = "returned"
    /\ call.encoded = <<>>
    /\ Cardinality(Range(call.urls)) = 2
    /\ Range(call.urls) \subseteq DOMAIN diskIndex.map

(***************************************************************************)
(* The fit and the tracker: properties.                                    *)
(***************************************************************************)
\* the PROGRESS lines of stdout, oldest first
ProgressLines == SelectSeq(out, LAMBDA l : l.kind = "PROGRESS")

NonDecreasing(s) == \A i \in 1..(Len(s) - 1) : s[i].pct <= s[i + 1].pct

LeavesPartition ==
    /\ UNION {leaves[i].indices : i \in 1..Len(leaves)} = 1..NSamples
    /\ \A i, j \in 1..Len(leaves) :
          i # j => leaves[i].indices \cap leaves[j].indices = {}

\* C4 as claimed: for 1 <= k <= N the fit ends with N labels whose values
\* are exactly 0..k-1, none left at -1, and with k center rows.
C4_EveryLabelUsed ==
    fpc \in {"labelled", "returned"} =>
        /\ Len(labels_) = NSamples
        /\ Range(labels_) = 0..(fitK - 1)
        /\ Len(cluster_centers_) = fitK

\* C5: from the creation of the root to the last split the index sets of
\* the leaves are pairwise disjoint and cover every sample, and a split puts
\* two children, disjoint and together the rows of the leaf that was
\* selected, in that leaf's place and touches no other leaf.
C5_LeavesPartition ==
    /\ [](fpc = "bisecting" => LeavesPartition)
    /\ [][step' = step + 1 =>
            \E p \in 1..Len(leaves) :
               /\ Len(leaves') = Len(leaves) + 1
               /\ leaves'[p].indices \cup leaves'[p + 1].indices
                     = leaves[p].indices
               /\ leaves'[p].indices \cap leaves'[p + 1].indices = {}
               /\ \A q \in 1..(p - 1) : leaves'[q] = leaves[q]
               /\ \A q \in (p + 1)..Len(leaves) : leaves'[q + 1] = leaves[q]]_vars

\* three samples after two splits: three leaves, none empty
C5_Witness ==
    /\ fpc = "bisecting"
    /\ step = 2
    /\ Len(leaves) = 3
    /\ \A i \in 1..3 : leaves[i].indices # {}
    /\ LeavesPartition

\* C9 as claimed: over one fit with a tracker the percentages written are
\* non-decreasing and the last one written when the fit returns is 100.
C9_ProgressEndsAt100 ==
    (fpc = "returned" /\ fitMode \in {"own", "shared"}) =>
        /\ NonDecreasing(ProgressLines)
        /\ ProgressLines # <<>>
        /\ ProgressLines[Len(ProgressLines)].pct = 100

\* C10: total_units is the constructor's argument raised to at least 1 and
\* never changes, current stays within 0..total_units and no call lowers
\* it; advance with units <= 0 leaves current as it is and advance past
\* the total stops at total_units.
C10_CurrentBounded ==
    /\ [](/\ pm.total_units = Max(1, pmArg)
          /\ 0 <= pm.current
          /\ pm.current <= pm.total_units)
    /\ [][/\ pm'.current >= pm.current
          /\ pmLast'.op = "advance" /\ pmLast'.units <= 0 =>
                pm'.current = pm.current
          /\ pmLast'.op = "advance"
                /\ pm.current + pmLast'.units >= pm.total_units =>
                pm'.current = pm.total_units
          /\ pmLast'.op = "complete" => pm'.current = pm.total_units]_vars

\* a tracker built with total_units = -1, completed, given a status and then
\* advanced by -1: current is still the clamped total
C10_Witness ==
    /\ pmArg = -1
    /\ pm.total_units = 1
    /\ pm.current = 1
    /\ pm.status # ""
    /\ pmLast = [op |-> "advance", units |-> -1]
    /\ \E i \in 1..Len(out) : out[i].kind = "DONE"

\* the lines a step has added to stdout
NewLines == SubSeq(out', Len(out) + 1, Len(out'))

\* C11: every PROGRESS value is an integer of 0..100, is a nearest integer
\* of current / total_units * 100 for the tracker's current at the time it
\* is written, and the values of one tracker never go down.
C11_PercentIsRounded ==
    /\ [](/\ \A i \in 1..Len(ProgressLines) : ProgressLines[i].pct \in 0..100
          /\ NonDecreasing(ProgressLines))
    /\ [][\A i \in 1..Len(NewLines) :
             NewLines[i].kind = "PROGRESS" =>
                /\ 2 * (NewLines[i].pct * pm'.total_units - 100 * pm'.current)
                      <= pm'.total_units
                /\ 2 * (100 * pm'.current - NewLines[i].pct * pm'.total_units)
                      <= pm'.total_units]_vars

\* a tracker of three units advanced one unit at a time: 33, 67, 100
C11_Witness ==
    /\ pm.total_units = 3
    /\ Len(ProgressLines) = 3
    /\ ProgressLines[1].pct = 33
    /\ ProgressLines[2].pct = 67
    /\ ProgressLines[3].pct = 100

\* C13 as claimed: complete() leaves the tracker at 100%, and over the life
\* of one tracker DONE is written once at most, however often complete() is
\* called.
C13_DoneOnce ==
    /\ pmLast.op = "complete" =>
          /\ pm.current = pm.total_units
          /\ ProgressLines[Len(ProgressLines)].pct = 100
    /\ Cardinality({i \in 1..Len(out) : out[i].kind = "DONE"}) <= 1

\* C14 as claimed: the units fit_verbose advances on the pipeline's tracker
\* are the 4 + max(1, k-1) + 3 units run_clustering budgets for the fit
\* stage (the tracker comes in with the five earlier stages advanced).
C14_FitUnitsMatchBudget ==
    (fpc = "returned" /\ fitMode = "shared") =>
        pm.current = 5 + BkmTotalUnits(fitK)

(***************************************************************************)
(* The pipeline: properties.                                               *)
(***************************************************************************)
DoneCount == Cardinality({i \in 1..Len(out) : out[i].kind = "DONE"})

\* C12: in a run of run_clustering that succeeds, DONE is written once and
\* is the last line, the line before it is PROGRESS 100, nothing follows it
\* while the process lives, and no DONE is written before the pipeline's
\* own complete(), so none by the engine that runs inside it.
C12_DoneOnceAndLast ==
    /\ rpc = "done" =>
          /\ DoneCount = 1
          /\ out[Len(out)] = DoneLine
          /\ out[Len(out) - 1] = ProgressLine(100)
    /\ rpc \notin {"done", "off"} => DoneCount = 0

\* a finished run whose engine made a split
C12_Witness ==
    /\ rpc = "done"
    /\ fitK >= 2
    /\ \E i \in 1..Len(out) : out[i].msg = "Bisecting cluster"
    /\ out[Len(out)] = DoneLine

\* C20 as claimed: the matrix handed to combine_features is the normalised
\* full-precision copy of the matrix generate_url_bert returned to this
\* run; an older derived copy is not used for a different matrix.
C20_DerivedCopyOfThisRun ==
    rpc \in {"vectorize", "fit", "finish", "done"} =>
        handed = NormRows(F32Rows(call.out))

(***************************************************************************)
(* The fit called with any n_clusters: properties.                         *)
(***************************************************************************)
BadK == fitK > NSamples \/ fitK < 1

\* C21 as claimed: a fit called with k > N or k < 1 fails with the
\* invalid-parameter error of the parameter check: it does not return, it
\* does not fail in any other way, and no labels or centers are produced.
C21_BadKRejected ==
    BadK => /\ fpc \notin {"returned", "crashed", "raised"}
            /\ labels_ = <<>>
            /\ cluster_centers_ = <<>>

\* C22 as claimed: a leaf with fewer than 2 members is never split: every
\* pass of the loop that splits a leaf has announced a leaf of 2 members or
\* more, and the leaves stay a partition of the samples.
C22_SmallLeafNotSplit ==
    /\ [](fpc = "bisecting" => LeavesPartition)
    /\ [][step' = step + 1 =>
            \A i \in 1..Len(NewLines) :
               NewLines[i].msg = "Bisecting cluster" => NewLines[i].size >= 2]_vars

\* the rows no leaf was given are not counted: a cluster is non-empty when
\* some row carries its label
NonEmptyClusters == {labels_[r] : r \in DOMAIN labels_} \ {-1}

\* C23 as claimed: a fit that returns has k non-empty clusters; when the
\* leaves cannot be split that far the fit fails instead of returning.
C23_NeverUnderfilled ==
    fpc = "returned" => Cardinality(NonEmptyClusters) = fitK

\* C24: a second fit on the same matrix with the same n_clusters and the
\* same seed ends with the labels and the centers of the first.
C24_SameSeedSameResult ==
    firstFit # <<>> =>
        /\ fpc # "raised"
        /\ fpc \in {"labelled", "returned"} =>
              /\ labels_ = firstFit.labels
              /\ cluster_centers_ = firstFit.centers

\* both fits returned two clusters, the first row in the second of them
C24_Witness ==
    /\ firstFit # <<>>
    /\ fpc = "returned"
    /\ fitK >= 2
    /\ labels_[1] = 1
    /\ \E r \in DOMAIN labels_ : labels_[r] = 0
    /\ labels_ = firstFit.labels

(***************************************************************************)
(* The fit's reports: properties.                                          *)
(***************************************************************************)
NewProgress == SelectSeq(NewLines, LAMBDA l : l.kind = "PROGRESS")

\* C25: without a tracker every percentage the fit writes is that of a
\* unit count on the scale of 4 + max(1, k-1) + 3 units which the step has
\* just reached; the percentages never decrease; when the fit returns the
\* last percentage is 100 and DONE is written once, as the last line, and
\* not before.
C25_LocalScale ==
    /\ [][fitMode = "direct" =>
            \A i \in 1..Len(NewProgress) :
               \E c \in (local_current + 1)..local_current' :
                  /\ c <= BkmTotalUnits(fitK)
                  /\ NewProgress[i].pct = Pct(c, BkmTotalUnits(fitK))]_vars
    /\ [](fitMode = "direct" =>
            /\ NonDecreasing(ProgressLines)
            /\ fpc = "returned" =>
                  /\ ProgressLines[Len(ProgressLines)].pct = 100
                  /\ out[Len(out)] = DoneLine
                  /\ DoneCount = 1
            /\ fpc # "returned" => DoneCount = 0)

\* a fit of three clusters without a tracker, returned: nine units
C25_Witness ==
    /\ fitMode = "direct"
    /\ fpc = "returned"
    /\ fitK = 3
    /\ [i \in 1..Len(ProgressLines) |-> ProgressLines[i].pct]
          = <<11, 22, 33, 44, 56, 67, 78, 78, 100>>
    /\ out[Len(out)] = DoneLine

\* C26: with the pipeline's tracker every percentage written during the fit
\* is the tracker's own, of its current and total_units after the step; no
\* step of the fit lowers current or changes total_units.
C26_TrackerScaleOnly ==
    [][fitMode = "shared" =>
         /\ pm'.total_units = pm.total_units
         /\ pm'.current >= pm.current
         /\ \A i \in 1..Len(NewProgress) :
               NewProgress[i] = ReportProgress(pm')]_vars

\* a fit of three clusters on the pipeline's tracker of 16 units, returned:
\* seven units added to the five of the earlier stages
C26_Witness ==
    /\ fitMode = "shared"
    /\ fpc = "returned"
    /\ fitK = 3
    /\ pm.total_units = 16
    /\ pm.current = 12
    /\ [i \in 1..Len(ProgressLines) |-> ProgressLines[i].pct]
          = <<38, 44, 50, 56, 62, 69, 75>>

\* the columns of every feature group, row by row in the source row order
AllGroups ==
    [i \in 1..Len(handed) |->
        <<handed[i], <<"method", i>>, <<"status", i>>, <<"size", i>>, <<"ua", i>>>>]

\* C27 as claimed: the matrix the engine is fitted on, and the one labels
\* are predicted on, hold for every row the columns of the url embedding,
\* the method, the status, the size and the user agent, in row order.
C27_AllGroupsFitted ==
    /\ features.fit.kind # "none" => features.fit.rows = AllGroups
    /\ features.predict.kind # "none" => features.predict.rows = AllGroups

(***************************************************************************)
(* The embedding cache: capacity, reset and row width.                     *)
(***************************************************************************)
\* C28: the capacity the metadata declares is at least the stored-row
\* count, every indexed offset lies below it, the data region has as many
\* rows as declared, and no call lowers the capacity or the stored-row
\* count, whatever max_cache_rows it is given.
C28_CapacityNeverShrinks ==
    /\ [](/\ diskMeta.n_stored <= diskMeta.capacity
          /\ \A k \in DOMAIN diskIndex.map : diskIndex.map[k] < diskMeta.capacity
          /\ diskFile.exists => Len(diskFile.rows) = diskMeta.capacity)
    /\ [][/\ diskMeta'.capacity >= diskMeta.capacity
          /\ diskMeta'.n_stored >= diskMeta.n_stored]_vars

\* a call with max_cache_rows = 1 on a store of capacity 2 that holds two
\* rows: the capacity stays 2
C28_Witness ==
    /\ cpc = "returned"
    /\ diskMeta.capacity = 2
    /\ diskMeta.n_stored = 2
    /\ call.overflow = {3}
    /\ call.urls = <<3>>


\* C29: a call with force_embed starts from an empty store: the encoder is
\* invoked for every distinct key of the call, afterwards the index holds
\* keys of this call only, the stored count is their number, the data region
\* holds rows of this call only, and every returned row is the encoder's
C29_ForceEmbedResets ==
    [][(cpc' = "returned" /\ call'.force_embed) =>
          /\ Range(call'.encoded) = Range(call'.urls)
          /\ Len(call'.encoded) = Cardinality(Range(call'.urls))
          /\ diskIndex'.exists /\ diskMeta'.exists
          /\ DOMAIN diskIndex'.map \subseteq Range(call'.urls)
          /\ diskMeta'.n_stored = Cardinality(DOMAIN diskIndex'.map)
          /\ \A o \in 1..Len(diskFile'.rows) :
                diskFile'.rows[o] \in
                    {ZeroRow} \cup {Enc16(u) : u \in Range(call'.urls)}
          /\ \A i \in 1..Len(call'.urls) :
                call'.out[i] = Enc16(call'.urls[i])]_vars

\* a forced call for key 2 alone after key 1 had been stored: key 1 is gone
C29_Witness ==
    /\ cpc = "returned" /\ call.force_embed
    /\ call.urls = <<2>>
    /\ 1 \in submitted
    /\ DOMAIN diskIndex.map = {2}
    /\ diskMeta.n_stored = 1

\* C30: a call whose encoder has another dimensionality than the metadata
\* records treats the store as empty: every distinct key of the call is
\* encoded, the index afterwards holds keys of this call only, and every
\* returned row is the encoder's
C30_DimChangeInvalidates ==
    [][(cpc' = "returned" /\ diskMeta.exists /\ call'.dim # diskDim) =>
          /\ Range(call'.encoded) = Range(call'.urls)
          /\ DOMAIN diskIndex'.map \subseteq Range(call'.urls)
          /\ \A i \in 1..Len(call'.urls) :
                call'.out[i] = Enc16(call'.urls[i])]_vars

\* C31: once is_valid_bot has classified an address, every later call for it
\* returns the cached verdict (True for verified, False for spoofed) without
\* a DNS lookup, whatever the user-agent; the two sets stay disjoint
C31_CachedVerdict ==
    /\ [](verified_bot_ips \cap spoofed_bot_ips = {})
    /\ [][(bpc = "up" /\ bpc' = "up") =>
            /\ botCall'.ip \in verified_bot_ips =>
                  botCall'.result = "True" /\ botCall'.lookups = 0
            /\ botCall'.ip \in spoofed_bot_ips =>
                  botCall'.result = "False" /\ botCall'.lookups = 0
            /\ verified_bot_ips \subseteq verified_bot_ips'
            /\ spoofed_bot_ips \subseteq spoofed_bot_ips']_vars

\* an address verified as Googlebot is asked about again with a user-agent
\* that names Bingbot only
C31_Witness ==
    /\ bpc = "up"
    /\ botCall.ip \in verified_bot_ips
    /\ botCall.ua = {"Bingbot"}
    /\ botCall.result = "True"
    /\ botCall.lookups = 0
    /\ spoofed_bot_ips # {}

\* the capacity max(2 * capacity, capacity + needed), with the first
\* capacity in the place of 2 * capacity on the first growth
Grown(capacity, need) ==
    Max(IF capacity > 0 THEN capacity * 2 ELSE FirstCapacity, capacity + need)

\* C32 as claimed: the capacity changes only when capacity - stored count <
\* needed, and is then max(2 * capacity, capacity + needed), lowered to
\* max_cache_rows when that is set and smaller; without a cap every newly
\* computed row is persisted and indexed.
C32_GrowthRule ==
    [][cpc' = "returned" =>
        LET need == Len(call'.encoded)
            free == diskMeta.capacity - diskMeta.n_stored
            grown == Grown(diskMeta.capacity, need)
        IN  /\ diskMeta'.capacity # diskMeta.capacity => free < need
            /\ (need > 0 /\ free < need) =>
                  diskMeta'.capacity =
                      IF call'.cap # {} /\ CapOf(call'.cap) < grown
                      THEN CapOf(call'.cap) ELSE grown
            /\ (need > 0 /\ call'.cap = {}) =>
                  /\ diskMeta'.capacity - diskMeta.n_stored >= need
                  /\ Range(call'.encoded) \subseteq DOMAIN diskIndex'.map
                  /\ call'.overflow = {}]_vars

\* C32 amended: as above, but the capacity is lowered to max_cache_rows only
\* when the current capacity is below max_cache_rows; a store whose capacity
\* is at or above max_cache_rows keeps its capacity.
C32_GrowthRuleKeeps ==
    [][cpc' = "returned" =>
        LET need == Len(call'.encoded)
            free == diskMeta.capacity - diskMeta.n_stored
            grown == Grown(diskMeta.capacity, need)
        IN  /\ diskMeta'.capacity # diskMeta.capacity => free < need
            /\ (need > 0 /\ free < need) =>
                  diskMeta'.capacity =
                      IF call'.cap # {} /\ CapOf(call'.cap) < grown
                      THEN Max(CapOf(call'.cap), diskMeta.capacity)
                      ELSE grown
            /\ (need > 0 /\ call'.cap = {}) =>
                  /\ diskMeta'.capacity - diskMeta.n_stored >= need
                  /\ Range(call'.encoded) \subseteq DOMAIN diskIndex'.map
                  /\ call'.overflow = {}
                  /\ \A u \in Range(call'.encoded) :
                        diskFile'.rows[diskIndex'.map[u] + 1] = Enc16(u)]_vars

\* a call without a cap has grown a full store of capacity 2 to 4 for one key
C32_Witness ==
    /\ cpc = "returned"
    /\ call.cap = {}
    /\ call.grew
    /\ call.encoded = <<3>>
    /\ diskMeta.capacity = 4
    /\ diskMeta.n_stored = 3
    /\ StoredRow(3) = Enc16(3)

\* C33: a call that needs more rows than are free, on a store whose capacity
\* is at or above the call's max_cache_rows, leaves the capacity as it is;
\* the keys that were not stored are in the overflow only: they have no index
\* entry and their rows are nowhere in the data region, and the call still
\* returns the encoder's row for them.
C33_RefusedGrowth ==
    [][(/\ cpc' = "returned"
        /\ call'.cap # {}
        /\ diskMeta.capacity >= CapOf(call'.cap)
        /\ diskMeta.capacity - diskMeta.n_stored < Len(call'.encoded)) =>
            /\ diskMeta'.capacity = diskMeta.capacity
            /\ Len(diskFile'.rows) = diskMeta.capacity
            /\ ~call'.grew
            /\ call'.overflow # {}
            /\ Cardinality(call'.overflow) >=
                  Len(call'.encoded)
                      - (diskMeta.capacity - diskMeta.n_stored)
            /\ call'.overflow \cap DOMAIN diskIndex'.map = {}
            /\ DOMAIN diskIndex'.map \cup call'.overflow =
                  DOMAIN diskIndex.map \cup Range(call'.encoded)
            /\ diskMeta'.n_stored = Cardinality(DOMAIN diskIndex'.map)
            /\ \A u \in call'.overflow :
                  /\ \A o \in 1..Len(diskFile'.rows) :
                        diskFile'.rows[o] # Enc16(u)
                  /\ \A i \in 1..Len(call'.urls) :
                        call'.urls[i] = u => call'.out[i] = Enc16(u)]_vars

\* a store of capacity 2 with one free row, asked under max_cache_rows = 1
\* for two new keys in batches of one: the first is stored, the second is
\* kept in the overflow
C33_Witness ==
    /\ cpc = "returned"
    /\ call.cap = {1}
    /\ call.encoded = <<2, 3>>
    /\ call.overflow = {3}
    /\ diskMeta.capacity = 2
    /\ DOMAIN diskIndex.map = {1, 2}

\* the 'Bisecting cluster' lines of stdout, oldest first
BisectLines == SelectSeq(out, LAMBDA l : l.msg = "Bisecting cluster")

\* C34: the i-th 'Bisecting cluster' status names step i; a split step first
\* writes that status with the size of the leaf it then splits, and after
\* the split advances by one unit and reports it; with k = 1 there is no
\* such status and no split step.
C34_StatusSplitAdvance ==
    /\ [](/\ \A i \in 1..Len(BisectLines) : BisectLines[i].step = i
          /\ Len(BisectLines) = step + (IF fpc = "raised" THEN 1 ELSE 0)
          /\ step <= Max(0, fitK - 1)
          /\ fitK = 1 => step = 0 /\ BisectLines = <<>>)
    /\ [][step' = step + 1 =>
            /\ Len(NewLines) = 2
            /\ NewLines[1].msg = "Bisecting cluster"
            /\ NewLines[1].step = step'
            /\ \E p \in 1..Len(leaves) :
                  /\ NewLines[1].size = Cardinality(leaves[p].indices)
                  /\ leaves'[p].indices \cup leaves'[p + 1].indices
                        = leaves[p].indices
                  /\ Len(leaves') = Len(leaves) + 1
            /\ NewLines[2].kind = "PROGRESS"
            /\ IF fitMode = "direct"
               THEN /\ local_current' = local_current + 1
                    /\ NewLines[2].pct =
                          Pct(local_current', BkmTotalUnits(fitK))
               ELSE /\ pm'.current = pm.current + 1
                    /\ pm'.total_units = pm.total_units
                    /\ NewLines[2].pct = Pct(pm'.current, pm'.total_units)]_vars

\* a fit with k = 3 after its second split
C34_Witness ==
    /\ fitK = 3
    /\ step = 2
    /\ fpc = "bisecting"
    /\ Len(BisectLines) = 2
    /\ BisectLines[1].size = 3
    /\ BisectLines[2].size = 2
    /\ out[Len(out)].kind = "PROGRESS"

\* C35: the tree has one leaf when the root is made and one more with every
\* split, so step + 1 leaves after step splits; the leaf count changes in no
\* other way; a fit that reaches the labelling has made k - 1 splits and has
\* k leaves, leaf i (in tree order, from 0) has label i and no index set.
C35_LeafCount ==
    /\ [](/\ fpc \in {"bisecting", "raised"} => Len(leaves) = step + 1
          /\ fpc \in {"labelled", "returned"} =>
                /\ step = fitK - 1
                /\ Len(leaves) = fitK
                /\ \A i \in 1..Len(leaves) :
                      /\ leaves[i].label = i - 1
                      /\ leaves[i].indices = {}
                /\ Cardinality({leaves[i].label : i \in 1..Len(leaves)})
                      = fitK)
    /\ [][/\ (fpc # "bisecting" /\ fpc' = "bisecting") =>
                Len(leaves') = 1 /\ step' = 0
          /\ step' # step => step' = step + 1
          /\ Len(leaves') # Len(leaves) =>
                \/ Len(leaves) = 0 /\ Len(leaves') = 1
                \/ step' = step + 1 /\ Len(leaves') = Len(leaves) + 1]_vars

\* a fit of three rows with k = 3 has returned: two splits, three leaves
\* labelled 0, 1, 2
C35_Witness ==
    /\ fpc = "returned"
    /\ fitK = 3
    /\ step = 2
    /\ Len(leaves) = 3
    /\ leaves[3].label = 2
    /\ Range(labels_) = {0, 1, 2}

\* C36: no step of a call up to and including a raise of the encoder changes
\* the index or the metadata on disk; whenever no call is under way every
\* indexed key has its encoder row at its offset in the data region; and a
\* call that returns, after an earlier one failed or not, has served every
\* key that was indexed when it started from the store, without encoding
\* it; no call fails for another reason than the encoder.
C36_EncoderRaiseKeepsStore ==
    /\ [][cpc' \in {"grow", "copied", "removed", "batches", "raised"} =>
            diskIndex' = diskIndex /\ diskMeta' = diskMeta]_vars
    /\ [](cpc \in {"idle", "raised", "returned"} =>
            \A k \in DOMAIN diskIndex.map :
               /\ diskFile.exists
               /\ diskIndex.map[k] < diskMeta.n_stored
               /\ diskMeta.n_stored <= Len(diskFile.rows)
               /\ diskFile.rows[diskIndex.map[k] + 1] = Enc16(k))
    /\ [](cpc = "raised" => call.failure = "encoder" /\ call.saved = {})
    /\ [][cpc' = "returned" =>
            \A k \in DOMAIN call'.loaded.index \cap Range(call'.urls) :
               /\ k \notin Range(call'.encoded)
               /\ \A i \in 1..Len(call'.urls) :
                     call'.urls[i] = k =>
                        call'.out[i] = Enc16(k)
                        /\ call'.out[i] = diskFile'.rows[diskIndex'.map[k] + 1]]_vars

\* key 1 was stored; a call for more keys grew the region, wrote a batch and
\* then failed in the encoder; the next call for key 1 alone is served from
\* the store, whose region is larger than the metadata says and holds a row
\* the failed call left behind
C36_Witness ==
    /\ cpc = "returned"
    /\ faults = 1
    /\ call.urls = <<1>>
    /\ call.encoded = <<>>
    /\ call.out = <<Enc16(1)>>
    /\ DOMAIN diskIndex.map = {1}
    /\ diskMeta.n_stored = 1
    /\ Len(diskFile.rows) > diskMeta.capacity
    /\ diskFile.rows[2] # ZeroRow

\* C37 as claimed: whenever no call is under way (it returned, raised or was
\* killed) and both files are readable, every offset of the on-disk index is
\* below the on-disk stored count, which is at most the on-disk capacity;
\* and no batch is written over the row of a key the on-disk index holds.
C37_IndexBelowStoredCount ==
    /\ []((cpc \in {"idle", "returned", "raised", "killed"}
            /\ unreadable = {}) =>
            /\ \A k \in DOMAIN diskIndex.map :
                  diskIndex.map[k] < diskMeta.n_stored
            /\ diskMeta.n_stored <= diskMeta.capacity)
    /\ [][(cpc = "batches" /\ cpc' = "batches" /\ unreadable = {}) =>
            \A k \in DOMAIN diskIndex.map :
               diskIndex.map[k] < Len(diskFile.rows) =>
                  diskFile'.rows[diskIndex.map[k] + 1]
                     = diskFile.rows[diskIndex.map[k] + 1]]_vars

\* C38: in a call that found every key of its list in the index, no step
\* invokes the encoder, grows the store, writes to the data region or to the
\* .tmp region, or writes the index or the metadata.
C38_HitsLeaveStoreAlone ==
    [][(cpc' # "idle"
        /\ Range(call'.urls) \subseteq DOMAIN call'.loaded.index) =>
            /\ diskIndex' = diskIndex
            /\ diskMeta' = diskMeta
            /\ diskFile' = diskFile
            /\ diskTmp' = diskTmp
            /\ unreadable' = unreadable
            /\ call'.encoded = <<>>
            /\ ~call'.grew
            /\ call'.saved = {}
            /\ call'.capacity = call'.loaded.capacity
            /\ call'.n_stored = call'.loaded.n_stored]_vars

\* a call for two keys, both indexed before, has returned their stored rows
C38_Witness ==
    /\ cpc = "returned"
    /\ call.urls = <<1, 2>>
    /\ DOMAIN call.loaded.index = {1, 2}
    /\ call.encoded = <<>>
    /\ call.saved = {}
    /\ call.out = <<Enc16(1), Enc16(2)>>

\* C39 as claimed: in a fit with k > N or k < 1 the engine advances nothing
\* and writes nothing: the shared tracker's current stays what it was when
\* the fit was called, the local counter stays 0, no PROGRESS line is
\* written and no STATUS line other than the one bkm_fit writes before it
\* calls the engine.
C39_RejectedBeforeProgress ==
    BadK =>
        /\ fitMode = "shared" => pm.current = PipelineTracker(fitK).current
        /\ local_current = 0
        /\ \A i \in 1..Len(out) :
              /\ out[i].kind # "PROGRESS"
              /\ out[i].kind = "STATUS" =>
                    out[i].msg = "Starting BisectingKMeans fitting"

====
